---- MODULE Spec2Model ----
(***************************************************************************)
(* Verification model of the Rapfi evaluation core: the Mix8 NNUE          *)
(* accumulator (clear / update<MOVE> / update<UNDO>), the Mix8Evaluator    *)
(* move cache, and the WeightRegistry.                                     *)
(*                                                                         *)
(* SIMD registers are modelled lane by lane: one model channel stands for  *)
(* one int16 lane.  Channels below FeatureDWConvDim are the conv-fed       *)
(* batches (b < ConvB::NumBatch), the others the "direct" batches.         *)
(***************************************************************************)
EXTENDS Integers, Sequences, FiniteSets, Bags, TLC

VARIABLES
    weight,                \* Mix8Evaluator::weight[side] (identified by a weight seed)
    accumulator,           \* Mix8Evaluator::accumulator[side]
    moveCache,             \* Mix8Evaluator::moveCache[side]
    valueSumBoardHistory,  \* Mix8Evaluator::valueSumBoardHistory[side]
    board,                 \* stones on the board, in the order they were placed
    sideToMove,            \* Board::sideToMove()
    trail,                 \* the last calls made on the evaluator / accumulator
    pre,                   \* evaluator state observed when beforeMove was last entered
    undoRun,               \* number of update<UNDO> calls since the last update<MOVE>
    everUndone,            \* TRUE once update<UNDO> has been called
    ordered,               \* TRUE while every update<UNDO> removed the most recent stone
    pool,                  \* WeightRegistry::pool
    heap,                  \* addresses of the Mix8Weight objects currently allocated
    handles,               \* bag of the pointers got from loadWeightFromFile and not yet unloaded
    lastLoad,              \* outcome of the last registry call
    files,                 \* the weight file found at each path
    evaluators,            \* bag of the Mix8Evaluator objects alive: rule and weight[side]
    lastConstruct,         \* outcome of the last Mix8Evaluator constructor call
    parseInput,            \* stream and validator given to StandardHeaderParserWarpper::load
    lastParse,             \* outcome of the last StandardHeaderParserWarpper::load call
    poolMutex,             \* WeightRegistry::poolMutex: the thread that holds it, or NoThread
    thr,                   \* per thread: its position in the registry call it is making
    seq,                   \* the registry calls completed so far, made one after the other
    table,                 \* HashTable::table: the entries of every bucket
    generation,            \* HashTable::generation
    lastTT,                \* the last call made on the hash table and what it gave
    searcher,              \* per search thread: its position in the hash table call it is making
    writer,                \* for each word of each entry: the store call its content is from
    made,                  \* the store calls that went on to write their entry
    numBuckets,            \* HashTable::numBuckets
    clearing,              \* the clear() call in progress: its worker threads still to run
    dumped,                \* the stream the last dump() wrote
    built                  \* the Mix8Accumulator objects constructed, whatever their board size

vars == <<weight, accumulator, moveCache, valueSumBoardHistory, board,
          sideToMove, trail, pre, undoRun, everUndone, ordered, pool, heap, handles,
          lastLoad, files, evaluators, lastConstruct, parseInput, lastParse,
          poolMutex, thr, seq, table, generation, lastTT, searcher, writer, made,
          numBuckets, clearing, dumped, built>>

accVars == <<weight, accumulator, moveCache, valueSumBoardHistory, board,
             sideToMove, trail, pre, undoRun, everUndone, ordered>>
regVars == <<pool, heap, handles, lastLoad>>
ctorVars == <<files, evaluators, lastConstruct, built>>
loaderVars == <<parseInput, lastParse>>
thrVars == <<poolMutex, thr, seq>>
raceVars == <<searcher, writer, made>>
sizeVars == <<numBuckets, clearing, dumped>>
ttVars == <<table, generation, lastTT, raceVars, sizeVars>>

-----------------------------------------------------------------------------
(* Bounds of the model *)

BoardSize == 8         \* board size of the modelled evaluator
MaxStones == 2         \* at most this many stones are on the board at a time
NumConvCh == 1         \* modelled lanes of the conv-fed channel batches
NumDirectCh == 1       \* modelled lanes of the direct (high) channel batches
NumSeeds == 1          \* number of different weight files tried
MaxHistory == 3        \* initEmptyBoard is not called with snapshot stacks that could outgrow this
NumPaths == 2          \* number of different weight file paths
MaxHandles == 3           \* weight pointers held by callers at a time
WeightBytes == 2          \* sizeof(Mix8Weight), in bytes of the model
MaxDescLen == 2           \* longest description of a weight file header
MaxEvaluators == 2        \* Mix8Evaluator objects alive at a time
NumBuckets == 1           \* HashTable::numBuckets
EntriesPerBucket == 2     \* entries of one bucket of the model
MaxGeneration == 1        \* highest HashTable::generation reached
NumThreads == 2           \* threads calling the registry at the same time
MinBoardSize == 6         \* smallest board initIndexTable stores inside the table for
MaxBoardSize == 11        \* largest board size an accumulator is constructed for
MaxAccumulators == 2      \* Mix8Accumulator objects alive at a time
MaxDumpBuckets == 2    \* buckets of the tables that are dumped and loaded
MaxClearBuckets == 3   \* buckets of the tables clear() runs on
MaxWorkers == 4        \* Threads.size() when clear() is called
MaxSearchCalls == 1    \* calls a search thread makes on the hash table
MaxRefCount == 3          \* highest reference count a constructor call may bring about

-----------------------------------------------------------------------------
(* Scalars *)

BLACK == 0
WHITE == 1
WALL == 2
EMPTY == 3
Sides == {BLACK, WHITE}

MOVE == "MOVE"
UNDO == "UNDO"

NGroup == 3

FeatureDWConvDim == NumConvCh
FeatureDim == NumConvCh + NumDirectCh
Channels == 0 .. FeatureDim - 1
ConvChannels == 0 .. FeatureDWConvDim - 1

RECURSIVE power(_, _)
power(b, e) == IF e = 0 THEN 1 ELSE b * power(b, e - 1)

Power3 == [i \in 0 .. 15 |-> power(3, i)]

DX == <<1, 0, 1, 1>>
DY == <<0, 1, 1, -1>>

Max(a, b) == IF a >= b THEN a ELSE b
Min(a, b) == IF a <= b THEN a ELSE b

\* f, evaluated: TLC builds [x \in S |-> e] lazily, and a loop of updates on a lazy
\* function nests one closure per iteration
Eager(f) == f @@ <<>>

\* a vector with one lane per channel, and a 3x3 array of them
ChVec(F(_)) == Eager([ch \in Channels |-> F(ch)])
ConvVec(F(_)) == Eager([ch \in ConvChannels |-> F(ch)])
GroupArr(F(_, _)) ==
    Eager([i \in 0 .. NGroup - 1 |-> Eager([j \in 0 .. NGroup - 1 |-> F(i, j)])])

RECURSIVE SumFn(_, _, _)
SumFn(f, lo, hi) == IF lo > hi THEN 0 ELSE f[lo] + SumFn(f, lo + 1, hi)

-----------------------------------------------------------------------------
(* int16 lane arithmetic *)

Wrap16(v) == ((v + 32768) % 65536) - 32768

I16Add(a, b) == Wrap16(a + b)
I16Sub(a, b) == Wrap16(a - b)
I16Max(a, b) == Max(a, b)
\* rounded high multiply: (((a * b) >> 14) + 1) >> 1, truncated to 16 bits
I16Mulhrs(a, b) == Wrap16((((a * b) \div 16384) + 1) \div 2)

PReLU(x, preluW) == I16Max(x, I16Mulhrs(x, preluW))
ReLU(x) == Max(x, 0)

-----------------------------------------------------------------------------
(* Weights.  A weight file is any array of int16 values; the model draws   *)
(* the arrays from a family indexed by a seed, with values spread over the *)
(* whole int16 range so that the 16-bit sums wrap.                         *)

Seeds == 1 .. NumSeeds

mapping(seed, shape, ch) ==
    Wrap16((((shape % 9973) * ((shape + 17 * seed) % 9967)) + shape + 12345 * ch) % 65536)

map_prelu_weight(seed, ch) == Wrap16((20011 * seed + 7919 * ch) % 65536)

feature_dwconv_weight(seed, k, ch) == Wrap16((30011 * seed + 4099 * k + 911 * ch) % 65536)

feature_dwconv_bias(seed, ch) == Wrap16((523 * seed + 77 * ch) % 65536)

-----------------------------------------------------------------------------
(* Board addressing *)

fullBoardSize == BoardSize + 2
nCells == BoardSize * BoardSize
Inner == 0 .. nCells - 1
Outer == 0 .. fullBoardSize * fullBoardSize - 1
Dirs == 0 .. 3
Coord == 0 .. BoardSize - 1

InnerIdx(x, y) == x + y * BoardSize
OuterIdx(xo, yo) == xo + yo * fullBoardSize

\* xi < 0 || xi >= boardSize || yi < 0 || yi >= boardSize
OffBoard(xi, yi) == xi < 0 \/ xi >= BoardSize \/ yi < 0 \/ yi >= BoardSize

\* size1, size2 and groupIndex of the constructor, for a board of the given size
size1Of(boardSize) == (boardSize \div 3) + (IF boardSize % 3 = 2 THEN 1 ELSE 0)

\* size2Of without the cell added for a remainder
size2Of_Floor(boardSize) == (boardSize \div 3) * 2

size2Of(boardSize) == (boardSize \div 3) * 2 + (IF boardSize % 3 > 0 THEN 1 ELSE 0)

groupIndexOf(boardSize) ==
    [i \in 0 .. boardSize - 1 |->
        (IF i >= size1Of(boardSize) THEN 1 ELSE 0) + (IF i >= size2Of(boardSize) THEN 1 ELSE 0)]

size1 == size1Of(BoardSize)
size2 == size2Of(BoardSize)
groupIndex == groupIndexOf(BoardSize)

-----------------------------------------------------------------------------
(* Mix8Accumulator::initIndexTable                                         *)
(* The three loop nests store into the zero-filled table; a later store to *)
(* the same slot overwrites an earlier one.  Each store is <<x, y, dir, c>>*)
(* and the stores are listed in program order.                             *)

RightWallCode(thick) == SumFn([j \in 0 .. thick - 1 |-> Power3[11 - j]], 0, thick - 1)
LeftWallCode(thick) == 2 * Power3[11] + SumFn([j \in 0 .. thick - 2 |-> Power3[j]], 0, thick - 2)
CornerCode(a, b) ==
    3 * Power3[11] + SumFn([i \in 0 .. a - 2 |-> Power3[10 - i]], 0, a - 2)
                   + SumFn([i \in 0 .. b - 2 |-> Power3[i]], 0, b - 2)

RightWallStores(boardSize, thick, i) ==
    LET c == RightWallCode(thick)
    IN  << <<boardSize - 6 + thick, i, 0, c>>,
           <<i, boardSize - 6 + thick, 1, c>>,
           <<boardSize - 6 + thick, i, 2, c>>,
           <<i, boardSize - 6 + thick, 2, c>>,
           <<boardSize - 6 + thick, i, 3, c>>,
           <<i, 6 - 1 - thick, 3, c>> >>

LeftWallStores(boardSize, thick, i) ==
    LET c == LeftWallCode(thick)
    IN  << <<6 - 1 - thick, i, 0, c>>,
           <<i, 6 - 1 - thick, 1, c>>,
           <<6 - 1 - thick, i, 2, c>>,
           <<i, 6 - 1 - thick, 2, c>>,
           <<6 - 1 - thick, i, 3, c>>,
           <<i, boardSize - 6 + thick, 3, c>> >>

CornerStores(boardSize, a, b) ==
    LET c == CornerCode(a, b)
    IN  << <<boardSize - 6 + a, 5 - b, 2, c>>,
           <<5 - b, boardSize - 6 + a, 2, c>>,
           <<5 - b, 5 - a, 3, c>>,
           <<boardSize - 6 + a, boardSize - 6 + b, 3, c>> >>

\* for (thick = 1..5) for (i = 0..boardSize-1) { six stores }, twice; then
\* for (a = 1..5) for (b = 1..5) { four stores }
IndexTableStores(boardSize) ==
    [k \in 1 .. 6 * 5 * boardSize |->
        RightWallStores(boardSize, 1 + ((k - 1) \div (6 * boardSize)),
                        ((k - 1) \div 6) % boardSize)[1 + ((k - 1) % 6)]]
    \o [k \in 1 .. 6 * 5 * boardSize |->
        LeftWallStores(boardSize, 1 + ((k - 1) \div (6 * boardSize)),
                       ((k - 1) \div 6) % boardSize)[1 + ((k - 1) % 6)]]
    \o [k \in 1 .. 4 * 25 |->
        CornerStores(boardSize, 1 + ((k - 1) \div 20), 1 + (((k - 1) \div 4) % 5))[1 + ((k - 1) % 4)]]

\* the table the stores leave for a board of the given size
IndexTableOf(boardSize) ==
    LET stores == IndexTableStores(boardSize)
    IN  Eager([innerIdx \in 0 .. boardSize * boardSize - 1 |-> Eager([dir \in Dirs |->
            LET hits == {k \in 1 .. Len(stores) :
                            /\ stores[k][1] + stores[k][2] * boardSize = innerIdx
                            /\ stores[k][3] = dir}
            IN  IF hits = {} THEN 0
                ELSE stores[CHOOSE k \in hits : \A j \in hits : j <= k][4]])])

initIndexTable == IndexTableOf(BoardSize)

-----------------------------------------------------------------------------
(* Mix8Accumulator::clear *)

ZeroValueSum ==
    [global |-> ChVec(LAMBDA ch : 0),
     group  |-> GroupArr(LAMBDA i, j : ChVec(LAMBDA ch : 0))]

\* mapSum of one cell: the four direction mappings added lane-wise
InitMapSum(w, shapes) ==
    ChVec(LAMBDA ch :
        I16Add(I16Add(I16Add(I16Add(0, mapping(w, shapes[0], ch)),
                             mapping(w, shapes[1], ch)),
                      mapping(w, shapes[2], ch)),
               mapping(w, shapes[3], ch)))

\* The value left in mapAfterDWConv[outerIdx] by the loop over the inner cells: the cell
\* (x, y) adds mulhrs(feature, dwconv_weight[8 - dy*3 - dx]) to the outer cell
\* (x + dx, y + dy), so the outer cell (xo, yo) collects the inner cells (xo - dx, yo - dy)
\* that are on the board, in row-major order (dy = 2, 1, 0 and dx = 2, 1, 0).
RECURSIVE ClearConv(_, _, _, _, _, _)
ClearConv(w, mapSum, xo, yo, ch, k) ==
    IF k > 8 THEN feature_dwconv_bias(w, ch)
    ELSE LET dy == k \div 3
             dx == k % 3
             x == xo - dx
             y == yo - dy
             convFeat == ClearConv(w, mapSum, xo, yo, ch, k + 1)
         IN  IF OffBoard(x, y) THEN convFeat
             ELSE I16Add(convFeat,
                         I16Mulhrs(PReLU(mapSum[InnerIdx(x, y)][ch], map_prelu_weight(w, ch)),
                                   feature_dwconv_weight(w, 8 - dy * 3 - dx, ch)))

\* the value sums of clear(): the direct channels add the PReLU'd mapSum of every inner
\* cell, the conv-fed channels relu(mapAfterDWConv) of every non-halo outer cell, each into
\* the global lanes and into the lanes of the group of the cell
ClearValueSum(w, mapSum, conv) ==
    LET feature(x, y, ch) ==
            IF ch \in ConvChannels
            THEN ReLU(conv[(fullBoardSize + 1) + y * fullBoardSize + x][ch])
            ELSE PReLU(mapSum[InnerIdx(x, y)][ch], map_prelu_weight(w, ch))
        total(ch, i, j, all) ==
            SumFn([y \in Coord |->
                     SumFn([x \in Coord |->
                              IF all \/ (groupIndex[y] = i /\ groupIndex[x] = j)
                              THEN feature(x, y, ch) ELSE 0], 0, BoardSize - 1)],
                  0, BoardSize - 1)
    IN  [global |-> ChVec(LAMBDA ch : total(ch, 0, 0, TRUE)),
         group |-> GroupArr(LAMBDA i, j : ChVec(LAMBDA ch : total(ch, i, j, FALSE)))]

clear(w) ==
    LET mapSum == Eager([innerIdx \in Inner |-> InitMapSum(w, initIndexTable[innerIdx])])
        conv == Eager([outerIdx \in Outer |-> ConvVec(LAMBDA ch :
                    ClearConv(w, mapSum, outerIdx % fullBoardSize, outerIdx \div fullBoardSize,
                              ch, 0))])
    IN  [indexTable |-> initIndexTable,
         mapSum |-> mapSum,
         mapAfterDWConv |-> conv,
         valueSum |-> ClearValueSum(w, mapSum, conv)]

-----------------------------------------------------------------------------
(* Mix8Accumulator::update<UT> *)

\* relu(mapAfterDWConv) of the outer cells of [x0, x1] x [y0, y1], summed into the global
\* lanes and into the lanes of the group (groupIndex[yi - 1], groupIndex[xi - 1])
ValueFeatureSum(conv, x0, y0, x1, y1) ==
    LET total(ch, i, j, all) ==
            SumFn([yi \in y0 .. y1 |->
                     SumFn([xi \in x0 .. x1 |->
                              IF all \/ (groupIndex[yi - 1] = i /\ groupIndex[xi - 1] = j)
                              THEN ReLU(conv[OuterIdx(xi, yi)][ch]) ELSE 0], x0, x1)],
                  y0, y1)
    IN  [global |-> ChVec(LAMBDA ch : IF ch \in ConvChannels THEN total(ch, 0, 0, TRUE) ELSE 0),
         group  |-> GroupArr(LAMBDA i, j : ChVec(LAMBDA ch :
                        IF ch \in ConvChannels THEN total(ch, i, j, FALSE) ELSE 0))]

VSumSub(a, b) ==
    [global |-> ChVec(LAMBDA ch : a.global[ch] - b.global[ch]),
     group  |-> GroupArr(LAMBDA i, j : ChVec(LAMBDA ch : a.group[i][j][ch] - b.group[i][j][ch]))]

\* VSumAdd with the group lanes left out
VSumAdd_GlobalOnly(a, b) ==
    [global |-> ChVec(LAMBDA ch : a.global[ch] + b.global[ch]),
     group  |-> a.group]

VSumAdd(a, b) ==
    [global |-> ChVec(LAMBDA ch : a.global[ch] + b.global[ch]),
     group  |-> GroupArr(LAMBDA i, j : ChVec(LAMBDA ch : a.group[i][j][ch] + b.group[i][j][ch]))]

\* dPower3 with the colour of the stone ignored on UNDO
dPower3_UndoBlack(UT, pieceColor) == IF UT = MOVE THEN pieceColor + 1 ELSE -1

\* dPower3 with the sign of UNDO that of MOVE
dPower3_SameSign(UT, pieceColor) == pieceColor + 1

dPower3(UT, pieceColor) == IF UT = MOVE THEN pieceColor + 1 ELSE -1 - pieceColor

\* The loop over dir = 0..3, dist = -5..5, with k = 11 * dir + dist + 5 as loop counter:
\* updates the shape table and appends one OnePointChange per on-board cell.
RECURSIVE RecordChanges(_, _, _, _)
RecordChanges(st, dP3, x, y) ==
    IF st.k >= 44 THEN st
    ELSE LET dir == st.k \div 11
             dist == (st.k % 11) - 5
             xi == x - dist * DX[dir + 1]
             yi == y - dist * DY[dir + 1]
             innerIdx == BoardSize * yi + xi
             oldShape == st.indexTable[innerIdx][dir]
             newShape == oldShape + dP3 * Power3[dist + 5]
         IN  IF OffBoard(xi, yi)
             THEN RecordChanges([st EXCEPT !.k = st.k + 1], dP3, x, y)
             ELSE RecordChanges(
                      [k |-> st.k + 1,
                       indexTable |-> [st.indexTable EXCEPT ![innerIdx][dir] = newShape],
                       changeTable |-> Append(st.changeTable,
                           [x |-> xi, y |-> yi, dir |-> dir, innerIdx |-> innerIdx,
                            oldShape |-> oldShape, newShape |-> newShape])],
                      dP3, x, y)

\* NewMapSum without the subtraction of the old mapping row
NewMapSum_NoSub(w, oldSum, c) ==
    ChVec(LAMBDA ch : I16Add(oldSum[ch], mapping(w, c.newShape, ch)))

\* mapSum of the changed cell: the old mapping row subtracted, the new one added
NewMapSum(w, oldSum, c) ==
    ChVec(LAMBDA ch :
        I16Add(I16Sub(oldSum[ch], mapping(w, c.oldShape, ch)), mapping(w, c.newShape, ch)))

\* NewConvFeat with the kernel taps not mirrored
NewConvFeat_Unmirrored(w, oldConvF, oldFeats, newFeats, dy, dx) ==
    ConvVec(LAMBDA ch :
        LET convW == feature_dwconv_weight(w, dy * 3 + dx, ch)
        IN  I16Add(I16Sub(oldConvF[ch], I16Mulhrs(oldFeats[ch], convW)),
                   I16Mulhrs(newFeats[ch], convW)))

\* one cell of mapAfterDWConv, dy rows and dx columns after the changed cell
NewConvFeat(w, oldConvF, oldFeats, newFeats, dy, dx) ==
    ConvVec(LAMBDA ch :
        LET convW == feature_dwconv_weight(w, 8 - dy * 3 - dx, ch)
        IN  I16Add(I16Sub(oldConvF[ch], I16Mulhrs(oldFeats[ch], convW)),
                   I16Mulhrs(newFeats[ch], convW)))

\* fold the old feature out of, and the new feature into, the 3x3 cells around c;
\* st.k = 3 * dy + dx is the loop counter
RECURSIVE UpdateConv(_, _, _, _, _)
UpdateConv(w, st, c, oldFeats, newFeats) ==
    IF st.k > 8 THEN st.conv
    ELSE LET dy == st.k \div 3
             dx == st.k % 3
             outerIdx == dx + (c.y * fullBoardSize + c.x) + dy * fullBoardSize
             newConvF == NewConvFeat(w, st.conv[outerIdx], oldFeats, newFeats, dy, dx)
         IN  UpdateConv(w, [k |-> st.k + 1, conv |-> [st.conv EXCEPT ![outerIdx] = newConvF]],
                        c, oldFeats, newFeats)

\* the direct channels of one value sum: the old feature subtracted, the new one added
AddDirect(vSum, oldFeats, newFeats) ==
    ChVec(LAMBDA ch :
        IF ch \in ConvChannels THEN vSum[ch]
        ELSE (vSum[ch] - oldFeats[ch]) + newFeats[ch])

\* one iteration of the "incremental update feature sum" loop, for the change c
ApplyChange(UT, w, st, c) ==
    LET oldSum == st.mapSum[c.innerIdx]
        newSum == NewMapSum(w, oldSum, c)
        oldFeats == ChVec(LAMBDA ch : PReLU(oldSum[ch], map_prelu_weight(w, ch)))
        newFeats == ChVec(LAMBDA ch : PReLU(newSum[ch], map_prelu_weight(w, ch)))
        addToAccumulator(vSum) == AddDirect(vSum, oldFeats, newFeats)
        gy == groupIndex[c.y]
        gx == groupIndex[c.x]
    IN  [i |-> st.i + 1,
         mapSum |-> [st.mapSum EXCEPT ![c.innerIdx] = newSum],
         mapAfterDWConv |->
             UpdateConv(w, [k |-> 0, conv |-> st.mapAfterDWConv], c, oldFeats, newFeats),
         vSum |-> IF UT = MOVE
                  THEN [global |-> addToAccumulator(st.vSum.global),
                        group |-> [st.vSum.group EXCEPT
                                      ![gy][gx] = addToAccumulator(st.vSum.group[gy][gx])]]
                  ELSE st.vSum]

\* the loop over the recorded changes; st.i is the loop counter (1-based)
RECURSIVE ApplyChanges(_, _, _, _)
ApplyChanges(UT, w, st, changeTable) ==
    IF st.i > Len(changeTable) THEN st
    ELSE ApplyChanges(UT, w, ApplyChange(UT, w, st, changeTable[st.i]), changeTable)

\* DirtyRect one column and one row short on the far side
DirtyRect_Short(x, y) ==
    [x0 |-> Max(x - 6 + 1, 1), y0 |-> Max(y - 6 + 1, 1),
     x1 |-> Min(x + 6, BoardSize), y1 |-> Min(y + 6, BoardSize)]

\* the rectangle of outer cells whose value features are taken out and put back
DirtyRect(x, y) ==
    [x0 |-> Max(x - 6 + 1, 1), y0 |-> Max(y - 6 + 1, 1),
     x1 |-> Min(x + 6 + 1, BoardSize), y1 |-> Min(y + 6 + 1, BoardSize)]

update(UT, w, acc, pieceColor, x, y, valueSumBoardBackup) ==
    LET x0 == DirtyRect(x, y).x0
        y0 == DirtyRect(x, y).y0
        x1 == DirtyRect(x, y).x1
        y1 == DirtyRect(x, y).y1
        vSum0 == IF UT = MOVE
                 THEN VSumSub(acc.valueSum, ValueFeatureSum(acc.mapAfterDWConv, x0, y0, x1, y1))
                 ELSE acc.valueSum
        rec == RecordChanges([k |-> 0, indexTable |-> acc.indexTable, changeTable |-> <<>>],
                             dPower3(UT, pieceColor), x, y)
        st == ApplyChanges(UT, w,
                           [i |-> 1, mapSum |-> acc.mapSum,
                            mapAfterDWConv |-> acc.mapAfterDWConv, vSum |-> vSum0],
                           rec.changeTable)
    IN  [indexTable |-> rec.indexTable,
         mapSum |-> st.mapSum,
         mapAfterDWConv |-> st.mapAfterDWConv,
         valueSum |-> IF UT = MOVE
                      THEN VSumAdd(st.vSum, ValueFeatureSum(st.mapAfterDWConv, x0, y0, x1, y1))
                      ELSE valueSumBoardBackup]

-----------------------------------------------------------------------------
(* State shared by the specifications *)

Last(q) == q[Len(q)]
ButLast(q) == SubSeq(q, 1, Len(q) - 1)

StoneAt(b, x, y) == \E k \in 1 .. Len(b) : b[k].x = x /\ b[k].y = y

NoCall == [op |-> "none", side |-> BLACK, n |-> 0]
NoPre == [stage |-> 0]

NoRegistryCall ==
    [op |-> "none", filepath |-> 0, ret |-> 0, loaderCalled |-> FALSE,
     raised |-> FALSE, outcome |-> "none", before |-> <<>>, again |-> FALSE]

EmptyRegistry ==
    /\ pool = <<>>
    /\ heap = {}
    /\ handles = EmptyBag
    /\ lastLoad = NoRegistryCall

\* the null pointer
nullptr == 0

NoThread == 0
Threads == 1 .. NumThreads

\* a thread that is in no registry call
IdleThread ==
    [pc |-> "idle", op |-> "none", filepath |-> 0, w |-> nullptr, outcome |-> "none",
     addr |-> nullptr, ret |-> nullptr, overlapped |-> FALSE]

\* no thread is in a registry call
NoThreads ==
    /\ poolMutex = NoThread
    /\ thr = [t \in Threads |-> IdleThread]
    /\ seq = [pool |-> <<>>, heap |-> {}, agree |-> TRUE]

NoTTCall == [op |-> "none", fresh |-> TRUE]

\* the hash table is not looked at
\* no search thread is in a hash table call
NoSearchers ==
    /\ searcher = <<>>
    /\ writer = <<>>
    /\ made = {}

NoClear == [pc |-> "none"]
NoStream == <<>>

NoHashTable ==
    /\ numBuckets = 0
    /\ clearing = NoClear
    /\ dumped = NoStream
    /\ table = <<>>
    /\ generation = 0
    /\ lastTT = NoTTCall
    /\ NoSearchers

NoConstruct == [op |-> "none"]

\* no accumulator was constructed on its own
NoAccumulators == <<>>
NoParse == [op |-> "none"]

\* no evaluator was constructed through the registry and no loader was called
NoLoaderCalls ==
    /\ files = <<>>
    /\ evaluators = EmptyBag
    /\ lastConstruct = NoConstruct /\ built = NoAccumulators
    /\ parseInput = NoParse
    /\ lastParse = NoParse
    /\ NoThreads
    /\ NoHashTable

\* the evaluator right after construction and initEmptyBoard, on an empty board
InitEvaluator ==
    /\ \E seed \in Seeds : weight = (BLACK :> seed) @@ (WHITE :> seed + 1)
    /\ accumulator = [s \in Sides |-> clear(weight[s])]
    /\ moveCache = [s \in Sides |-> <<>>]
    /\ valueSumBoardHistory = [s \in Sides |-> <<>>]
    /\ board = <<>>
    /\ sideToMove = BLACK
    /\ trail = NoCall
    /\ pre = NoPre
    /\ undoRun = 0
    /\ everUndone = FALSE
    /\ ordered = TRUE

\* no accumulator is looked at: the members of the evaluators are left out
NoEvaluator ==
    /\ weight = <<>>
    /\ accumulator = <<>>
    /\ moveCache = <<>>
    /\ valueSumBoardHistory = <<>>
    /\ board = <<>>
    /\ sideToMove = BLACK
    /\ trail = NoCall
    /\ pre = NoPre
    /\ undoRun = 0
    /\ everUndone = FALSE
    /\ ordered = TRUE

-----------------------------------------------------------------------------
(* Direct use of one Mix8Accumulator: the BLACK accumulator of the         *)
(* evaluator is driven by update<MOVE> / update<UNDO> calls, the caller    *)
(* keeping the snapshot stack as clearCache does.                          *)

\* the cells played in the model: a corner, a border cell and two interior cells; they
\* pair up on a diagonal, an anti-diagonal and a row
PlayCells == {<<0, 0>>, <<3, 3>>, <<4, 2>>, <<BoardSize - 1, 2>>}

AccMove(color, x, y) ==
    /\ Len(board) < MaxStones
    /\ ~StoneAt(board, x, y)
    /\ valueSumBoardHistory' =
          [valueSumBoardHistory EXCEPT ![BLACK] = Append(@, accumulator[BLACK].valueSum)]
    /\ accumulator' = [accumulator EXCEPT
                          ![BLACK] = update(MOVE, weight[BLACK], @, color, x, y, ZeroValueSum)]
    /\ board' = Append(board, [color |-> color, x |-> x, y |-> y])
    /\ undoRun' = 0
    /\ trail' = [op |-> "update<MOVE>", side |-> BLACK, n |-> 1]
    /\ UNCHANGED <<weight, moveCache, sideToMove, pre, everUndone, ordered>>
    /\ UNCHANGED <<regVars, ctorVars, loaderVars, thrVars, ttVars>>

\* update<UNDO> of the k-th stone placed, given the snapshot on top of the stack
AccUndoAt(k) ==
    /\ accumulator' = [accumulator EXCEPT
                          ![BLACK] = update(UNDO, weight[BLACK], @, board[k].color,
                                            board[k].x, board[k].y,
                                            Last(valueSumBoardHistory[BLACK]))]
    /\ valueSumBoardHistory' = [valueSumBoardHistory EXCEPT ![BLACK] = ButLast(@)]
    /\ board' = SubSeq(board, 1, k - 1) \o SubSeq(board, k + 1, Len(board))
    /\ undoRun' = undoRun + 1
    /\ everUndone' = TRUE
    /\ trail' = [op |-> "update<UNDO>", side |-> BLACK, n |-> 1]
    /\ UNCHANGED <<weight, moveCache, sideToMove, pre>>
    /\ UNCHANGED <<regVars, ctorVars, loaderVars, thrVars, ttVars>>

\* undo of the most recent stone: the snapshot given is the matching one
AccUndoLast ==
    /\ Len(board) > 0
    /\ AccUndoAt(Len(board))
    /\ UNCHANGED ordered

\* undo of an older stone
AccUndoOther ==
    /\ \E k \in 1 .. Len(board) - 1 : AccUndoAt(k)
    /\ ordered' = FALSE

InitAcc == InitEvaluator /\ EmptyRegistry /\ NoLoaderCalls

NextAcc ==
    \/ \E color \in Sides, c \in PlayCells : AccMove(color, c[1], c[2])
    \/ AccUndoLast
    \/ AccUndoOther

SpecAcc == InitAcc /\ [][NextAcc]_vars

-----------------------------------------------------------------------------
(* Mix8Evaluator: the move cache in front of the two accumulators *)

\* opponentMap with no colour swapped
opponentMap_Same == (BLACK :> BLACK) @@ (WHITE :> WHITE) @@ (WALL :> WALL) @@ (EMPTY :> EMPTY)

opponentMap == (BLACK :> WHITE) @@ (WHITE :> BLACK) @@ (WALL :> WALL) @@ (EMPTY :> EMPTY)

Opponent(side) == IF side = BLACK THEN WHITE ELSE BLACK

isContraryMove(a, b) ==
    a.x = b.x /\ a.y = b.y /\ a.oldColor = b.newColor /\ a.newColor = b.oldColor

\* addCacheSide without the cancellation of a contrary move
addCacheSide_Append(mc, newCache) == Append(mc, newCache)

\* the cache of one side after addCache
addCacheSide(mc, newCache) ==
    IF mc = <<>> \/ ~isContraryMove(newCache, Last(mc))
    THEN Append(mc, newCache)
    ELSE ButLast(mc)

\* addCache recording the entry in the cache of the mover only
addCache_MoverOnly(cache, side, x, y, isUndo) ==
    LET newCache == IF isUndo
                    THEN [oldColor |-> side, newColor |-> EMPTY, x |-> x, y |-> y]
                    ELSE [oldColor |-> EMPTY, newColor |-> side, x |-> x, y |-> y]
    IN  [cache EXCEPT ![side] = addCacheSide(@, newCache)]

addCache(cache, side, x, y, isUndo) ==
    LET newCache == IF isUndo
                    THEN [oldColor |-> side, newColor |-> EMPTY, x |-> x, y |-> y]
                    ELSE [oldColor |-> EMPTY, newColor |-> side, x |-> x, y |-> y]
    IN  [c \in Sides |-> addCacheSide(cache[c], newCache)]

\* the update call made for one cache entry, as the calls of clearCache are logged: the
\* template argument, the colour, x and y passed, the size of valueSumBoardHistory[side]
\* when the entry was reached, and the snapshot pushed (MOVE) or passed (UNDO)
UpdateCall(UT, pieceColor, x, y, history, snapshot) ==
    [UT |-> UT, pieceColor |-> pieceColor, x |-> x, y |-> y,
     depth |-> Len(history), snapshot |-> snapshot]

\* clearCacheEntry with the snapshot stack left as it is after update<UNDO>
clearCacheEntry_NoPop(side, w, st, entry) ==
    LET mc == IF side = WHITE
              THEN [entry EXCEPT !.oldColor = opponentMap[entry.oldColor],
                                 !.newColor = opponentMap[entry.newColor]]
              ELSE entry
    IN  IF mc.oldColor = EMPTY
        THEN [acc |-> update(MOVE, w, st.acc, mc.newColor, mc.x, mc.y, ZeroValueSum),
              history |-> Append(st.history, st.acc.valueSum),
              n |-> st.n + 1,
              log |-> Append(st.log, UpdateCall(MOVE, mc.newColor, mc.x, mc.y, st.history,
                                                st.acc.valueSum))]
        ELSE [acc |-> update(UNDO, w, st.acc, mc.oldColor, mc.x, mc.y, Last(st.history)),
              history |-> st.history,
              n |-> st.n + 1,
              log |-> Append(st.log, UpdateCall(UNDO, mc.oldColor, mc.x, mc.y, st.history,
                                                Last(st.history)))]

\* the body of the loop of clearCache for one cache entry; st holds the accumulator, the
\* snapshot stack, the number of update calls made and the log of these calls
clearCacheEntry(side, w, st, entry) ==
    LET mc == IF side = WHITE
              THEN [entry EXCEPT !.oldColor = opponentMap[entry.oldColor],
                                 !.newColor = opponentMap[entry.newColor]]
              ELSE entry
    IN  IF mc.oldColor = EMPTY
        THEN [acc |-> update(MOVE, w, st.acc, mc.newColor, mc.x, mc.y, ZeroValueSum),
              history |-> Append(st.history, st.acc.valueSum),
              n |-> st.n + 1,
              log |-> Append(st.log, UpdateCall(MOVE, mc.newColor, mc.x, mc.y, st.history,
                                                st.acc.valueSum))]
        ELSE [acc |-> update(UNDO, w, st.acc, mc.oldColor, mc.x, mc.y, Last(st.history)),
              history |-> ButLast(st.history),
              n |-> st.n + 1,
              log |-> Append(st.log, UpdateCall(UNDO, mc.oldColor, mc.x, mc.y, st.history,
                                                Last(st.history)))]

\* the loop of clearCache run from the last cache entry to the first
RECURSIVE clearCacheLoop_Backwards(_, _, _, _, _)
clearCacheLoop_Backwards(side, w, st, mc, i) ==
    IF i > Len(mc) THEN st
    ELSE clearCacheLoop_Backwards(side, w,
                                  clearCacheEntry(side, w, st, mc[Len(mc) + 1 - i]), mc, i + 1)

RECURSIVE clearCacheLoop(_, _, _, _, _)
clearCacheLoop(side, w, st, mc, i) ==
    IF i > Len(mc) THEN st
    ELSE clearCacheLoop(side, w, clearCacheEntry(side, w, st, mc[i]), mc, i + 1)

clearCache(side, w, acc, history, mc) ==
    clearCacheLoop(side, w, [acc |-> acc, history |-> history, n |-> 0, log |-> <<>>], mc, 1)

\* Board::move: the stone of the side to move is put down and the turn passes
BoardMove(b, side, x, y) ==
    [board |-> Append(b, [color |-> side, x |-> x, y |-> y]), sideToMove |-> Opponent(side)]

\* Board::undo: the most recent stone is taken back and its side is to move again
BoardUndo(b) ==
    [board |-> ButLast(b), sideToMove |-> Last(b).color]

\* Board::move with the beforeMove hook: the hook runs before the stone is put down
beforeMove(x, y) ==
    /\ Len(board) < MaxStones
    /\ ~StoneAt(board, x, y)
    /\ moveCache' = addCache(moveCache, sideToMove, x, y, FALSE)
    /\ board' = BoardMove(board, sideToMove, x, y).board
    /\ sideToMove' = BoardMove(board, sideToMove, x, y).sideToMove
    /\ trail' = [op |-> "beforeMove", side |-> sideToMove, n |-> 0]
    /\ pre' = [stage |-> 1, moveCache |-> moveCache, accumulator |-> accumulator,
               history |-> valueSumBoardHistory]
    /\ UNCHANGED <<weight, accumulator, valueSumBoardHistory, undoRun,
                   everUndone, ordered>>
    /\ UNCHANGED <<regVars, ctorVars, loaderVars, thrVars, ttVars>>

\* Board::undo with the afterUndo hook: the hook runs after the stone was taken back
afterUndo ==
    /\ Len(board) > 0
    /\ LET stone == Last(board)
           undone == BoardUndo(board)
       IN  /\ moveCache' = addCache(moveCache, undone.sideToMove, stone.x, stone.y, TRUE)
           /\ sideToMove' = undone.sideToMove
           /\ board' = undone.board
           /\ trail' = [op |-> "afterUndo", side |-> undone.sideToMove, n |-> 0]
    /\ pre' = IF trail.op = "beforeMove" THEN [pre EXCEPT !.stage = 2] ELSE NoPre
    /\ UNCHANGED <<weight, accumulator, valueSumBoardHistory, undoRun,
                   everUndone, ordered>>
    /\ UNCHANGED <<regVars, ctorVars, loaderVars, thrVars, ttVars>>

\* the state change of evaluateValue / evaluatePolicy: clearCache(self) for the side to
\* move
Evaluate(op) ==
    LET self == sideToMove
        r == clearCache(self, weight[self], accumulator[self],
                        valueSumBoardHistory[self], moveCache[self])
    IN  /\ accumulator' = [accumulator EXCEPT ![self] = r.acc]
        /\ valueSumBoardHistory' = [valueSumBoardHistory EXCEPT ![self] = r.history]
        /\ moveCache' = [moveCache EXCEPT ![self] = <<>>]
        /\ trail' = [op |-> op, side |-> self, n |-> r.n, cache |-> moveCache[self],
                     log |-> r.log]
        /\ pre' = IF trail.op = "afterUndo" /\ pre.stage = 2
                  THEN [pre EXCEPT !.stage = 3] ELSE NoPre
        /\ UNCHANGED <<weight, board, sideToMove, undoRun, everUndone, ordered>>
        /\ UNCHANGED <<regVars, ctorVars, loaderVars, thrVars, ttVars>>

evaluateValue == Evaluate("evaluate")

evaluatePolicy == Evaluate("evaluate")

\* Board::newGame with the initEmptyBoard hook
initEmptyBoard ==
    /\ board # <<>>
    /\ \A s \in Sides : Len(valueSumBoardHistory[s]) + MaxStones <= MaxHistory
    /\ moveCache' = [s \in Sides |-> <<>>]
    /\ accumulator' = [s \in Sides |-> clear(weight[s])]
    /\ board' = <<>>
    /\ sideToMove' = BLACK
    /\ trail' = [op |-> "initEmptyBoard", side |-> BLACK, n |-> 0]
    /\ pre' = NoPre
    /\ UNCHANGED <<weight, valueSumBoardHistory, undoRun, everUndone, ordered>>
    /\ UNCHANGED <<regVars, ctorVars, loaderVars, thrVars, ttVars>>

Init == InitEvaluator /\ EmptyRegistry /\ NoLoaderCalls

\* the cells the search plays in the model
SearchCells == {<<0, 0>>, <<3, 3>>, <<4, 2>>}

Next ==
    \/ \E c \in SearchCells : beforeMove(c[1], c[2])
    \/ afterUndo
    \/ evaluateValue
    \/ evaluatePolicy

Spec == Init /\ [][Next]_vars

\* the same, with new games started in between
NextNewGame == Next \/ initEmptyBoard

SpecNewGame == Init /\ [][NextNewGame]_vars

\* the cell of the k-th stone of a game that fills the board row by row
FillCell(k) == <<k % BoardSize, k \div BoardSize>>

\* Board::move with the beforeMove hook on the next cell of the filling game: every
\* cell of the board can be played
FillMove ==
    /\ Len(board) < BoardSize * BoardSize
    /\ LET x == FillCell(Len(board))[1]
           y == FillCell(Len(board))[2]
       IN  /\ ~StoneAt(board, x, y)
           /\ moveCache' = addCache(moveCache, sideToMove, x, y, FALSE)
           /\ board' = BoardMove(board, sideToMove, x, y).board
           /\ sideToMove' = BoardMove(board, sideToMove, x, y).sideToMove
    /\ trail' = [op |-> "beforeMove", side |-> sideToMove, n |-> 0]
    /\ pre' = [stage |-> 1, moveCache |-> moveCache, accumulator |-> accumulator,
               history |-> valueSumBoardHistory]
    /\ UNCHANGED <<weight, accumulator, valueSumBoardHistory, undoRun,
                   everUndone, ordered>>
    /\ UNCHANGED <<regVars, ctorVars, loaderVars, thrVars, ttVars>>

\* a game played to the full board, with evaluations in its first MaxStones moves
NextFill ==
    \/ FillMove
    \/ afterUndo
    \/ Len(board) <= MaxStones /\ Len(moveCache[sideToMove]) <= MaxStones /\ evaluateValue
    \/ Len(board) <= MaxStones /\ Len(moveCache[sideToMove]) <= MaxStones /\ evaluatePolicy

SpecFill == Init /\ [][NextFill]_vars

-----------------------------------------------------------------------------
(* WeightRegistry: the pool of loaded weights.  Both methods hold poolMutex *)
(* from entry to return, so each call is one step.                         *)

\* file paths, compared as std::filesystem::path compares them
Paths == 1 .. NumPaths

\* addresses a Mix8Weight can be allocated at
Addrs == 1 .. MaxHandles

\* what opening the file and running the loader can come to
LoadOutcomes == {"notOpen", "loadFailed", "raised", "loaded"}

\* FindPath that finds nothing
FindPath_Miss(p, filepath) == 0

\* index of the first pool entry with the given path, 0 if there is none
FindPath(p, filepath) ==
    IF \E i \in 1 .. Len(p) : p[i].filepath = filepath
    THEN CHOOSE i \in 1 .. Len(p) :
             /\ p[i].filepath = filepath
             /\ \A j \in 1 .. i - 1 : p[j].filepath # filepath
    ELSE 0

\* index of the first pool entry holding the given weight, 0 if there is none
FindWeight(p, w) ==
    IF \E i \in 1 .. Len(p) : p[i].weight = w
    THEN CHOOSE i \in 1 .. Len(p) :
             /\ p[i].weight = w
             /\ \A j \in 1 .. i - 1 : p[j].weight # w
    ELSE 0

\* the sequence q without its i-th element
Erase(q, i) == SubSeq(q, 1, i - 1) \o SubSeq(q, i + 1, Len(q))

\* loadWeightFromFile that keeps an entry, without a weight, for a load that failed
loadWeightFromFile_CacheFailure(p, h, filepath, outcome, addr) ==
    LET i == FindPath(p, filepath)
    IN  IF i # 0
        THEN [pool |-> [p EXCEPT ![i].refCount = @ + 1], heap |-> h,
              ret |-> p[i].weight, loaderCalled |-> FALSE, raised |-> FALSE]
        ELSE IF outcome = "notOpen"
        THEN [pool |-> p, heap |-> h, ret |-> nullptr, loaderCalled |-> FALSE,
              raised |-> FALSE]
        ELSE IF outcome = "loaded"
        THEN [pool |-> Append(p, [filepath |-> filepath, weight |-> addr, refCount |-> 1]),
              heap |-> h \cup {addr}, ret |-> addr, loaderCalled |-> TRUE,
              raised |-> FALSE]
        ELSE [pool |-> Append(p, [filepath |-> filepath, weight |-> nullptr,
                                  refCount |-> 1]),
              heap |-> h, ret |-> nullptr, loaderCalled |-> TRUE,
              raised |-> outcome = "raised"]

\* loadWeightFromFile: outcome and addr are what the file system, the loader and the
\* allocator come to if they are reached.  A loader that raises leaves the method by the
\* exception: the lock is released, nothing is returned, the pool was not touched.
loadWeightFromFile(p, h, filepath, outcome, addr) ==
    LET i == FindPath(p, filepath)
    IN  IF i # 0
        THEN [pool |-> [p EXCEPT ![i].refCount = @ + 1], heap |-> h,
              ret |-> p[i].weight, loaderCalled |-> FALSE, raised |-> FALSE]
        ELSE IF outcome = "notOpen"
        THEN [pool |-> p, heap |-> h, ret |-> nullptr, loaderCalled |-> FALSE,
              raised |-> FALSE]
        ELSE IF outcome = "loaded"
        THEN [pool |-> Append(p, [filepath |-> filepath, weight |-> addr, refCount |-> 1]),
              heap |-> h \cup {addr}, ret |-> addr, loaderCalled |-> TRUE,
              raised |-> FALSE]
        ELSE [pool |-> p, heap |-> h, ret |-> nullptr, loaderCalled |-> TRUE,
              raised |-> outcome = "raised"]

\* unloadWeight that erases the entry whatever its reference count
unloadWeight_Erase(p, h, w) ==
    LET i == FindWeight(p, w)
    IN  IF i = 0 THEN [pool |-> p, heap |-> h]
        ELSE [pool |-> Erase(p, i), heap |-> h \ {p[i].weight}]

\* unloadWeight
unloadWeight(p, h, w) ==
    LET i == FindWeight(p, w)
    IN  IF i = 0 THEN [pool |-> p, heap |-> h]
        ELSE IF p[i].refCount - 1 = 0
        THEN [pool |-> Erase(p, i), heap |-> h \ {p[i].weight}]
        ELSE [pool |-> [p EXCEPT ![i].refCount = @ - 1], heap |-> h]

\* a caller loads a weight and keeps the pointer it gets
LoadWeight(filepath) ==
    /\ BagCardinality(handles) < MaxHandles
    /\ \E outcome \in LoadOutcomes, addr \in Addrs \ heap :
          LET r == loadWeightFromFile(pool, heap, filepath, outcome, addr)
          IN  /\ pool' = r.pool
              /\ heap' = r.heap
              /\ handles' = IF r.ret # nullptr
                            THEN handles (+) SetToBag({[filepath |-> filepath, weight |-> r.ret]})
                            ELSE handles
              /\ lastLoad' = [op |-> "load", filepath |-> filepath, ret |-> r.ret,
                              loaderCalled |-> r.loaderCalled, raised |-> r.raised,
                              outcome |-> IF FindPath(pool, filepath) # 0
                                          THEN "cached" ELSE outcome,
                              before |-> pool,
                              again |-> /\ lastLoad.op = "load"
                                        /\ lastLoad.ret = nullptr
                                        /\ lastLoad.filepath = filepath]
    /\ UNCHANGED <<accVars, ctorVars, loaderVars, thrVars, ttVars>>

\* a caller gives back a pointer it holds
UnloadWeight(held) ==
    /\ BagIn(held, handles)
    /\ LET r == unloadWeight(pool, heap, held.weight)
       IN  /\ pool' = r.pool
           /\ heap' = r.heap
           /\ lastLoad' = [op |-> "unload", filepath |-> held.filepath,
                           ret |-> held.weight, loaderCalled |-> FALSE,
                           raised |-> FALSE, outcome |-> "none", before |-> pool,
                           again |-> lastLoad.op = "unload" /\ lastLoad.ret = held.weight]
    /\ handles' = handles (-) SetToBag({held})
    /\ UNCHANGED <<accVars, ctorVars, loaderVars, thrVars, ttVars>>

\* unloadWeight of a pointer that no pool entry holds
UnloadUnknown(w) ==
    /\ FindWeight(pool, w) = 0
    /\ LET r == unloadWeight(pool, heap, w)
       IN  /\ pool' = r.pool
           /\ heap' = r.heap
    /\ lastLoad' = [op |-> "unloadUnknown", filepath |-> 0, ret |-> nullptr,
                    loaderCalled |-> FALSE, raised |-> FALSE, outcome |-> "none",
                    before |-> pool, again |-> FALSE]
    /\ UNCHANGED handles
    /\ UNCHANGED <<accVars, ctorVars, loaderVars, thrVars, ttVars>>

InitReg == InitEvaluator /\ EmptyRegistry /\ NoLoaderCalls

NextReg ==
    \/ \E filepath \in Paths : LoadWeight(filepath)
    \/ \E held \in BagToSet(handles) : UnloadWeight(held)
    \/ \E w \in Addrs \cup {nullptr} : UnloadUnknown(w)

SpecReg == InitReg /\ [][NextReg]_vars

-----------------------------------------------------------------------------
(* WeightRegistry called from several threads: the steps of one call, in the order *)
(* the code makes its accesses to poolMutex and pool                            *)

\* a lock that never waits
mutexFree_Always(m) == TRUE

\* std::lock_guard<std::mutex> lock(poolMutex) goes on only when no thread holds the mutex
mutexFree(m) == m = NoThread

\* the load calls that were entered and have not returned
LoadsInFlight == Cardinality({t \in Threads : thr[t].pc # "idle" /\ thr[t].op = "load"})

\* thread t enters loadWeightFromFile(filepath, loader)
CallLoad(t, filepath) ==
    /\ thr[t].pc = "idle"
    /\ BagCardinality(handles) + LoadsInFlight < MaxHandles
    /\ thr' = [u \in Threads |->
                  IF u = t
                  THEN [IdleThread EXCEPT !.pc = "lock", !.op = "load",
                                          !.filepath = filepath,
                                          !.overlapped =
                                              \E v \in Threads \ {t} : thr[v].pc # "idle"]
                  ELSE IF thr[u].pc # "idle" THEN [thr[u] EXCEPT !.overlapped = TRUE]
                  ELSE thr[u]]
    /\ UNCHANGED <<accVars, regVars, ctorVars, loaderVars, poolMutex, seq, ttVars>>

\* thread t enters unloadWeight with a pointer it got from a load
CallUnload(t, held) ==
    /\ thr[t].pc = "idle"
    /\ BagIn(held, handles)
    /\ handles' = handles (-) SetToBag({held})
    /\ thr' = [u \in Threads |->
                  IF u = t
                  THEN [IdleThread EXCEPT !.pc = "lock", !.op = "unload",
                                          !.filepath = held.filepath, !.w = held.weight,
                                          !.overlapped =
                                              \E v \in Threads \ {t} : thr[v].pc # "idle"]
                  ELSE IF thr[u].pc # "idle" THEN [thr[u] EXCEPT !.overlapped = TRUE]
                  ELSE thr[u]]
    /\ UNCHANGED <<accVars, pool, heap, lastLoad, ctorVars, loaderVars, poolMutex, seq, ttVars>>

\* the lock_guard is constructed
Lock(t) ==
    /\ thr[t].pc = "lock"
    /\ mutexFree(poolMutex)
    /\ poolMutex' = t
    /\ thr' = [thr EXCEPT ![t].pc = IF thr[t].op = "load" THEN "find" ELSE "scan"]
    /\ UNCHANGED <<accVars, regVars, ctorVars, loaderVars, seq, ttVars>>

\* loadWeightFromFile: the loop over the pool
Find(t) ==
    /\ thr[t].pc = "find"
    /\ LET i == FindPath(pool, thr[t].filepath)
       IN  IF i # 0
           THEN /\ pool' = [pool EXCEPT ![i].refCount = @ + 1]
                /\ thr' = [thr EXCEPT ![t].pc = "unlock", ![t].ret = pool[i].weight,
                                      ![t].outcome = "cached"]
           ELSE /\ pool' = pool
                /\ thr' = [thr EXCEPT ![t].pc = "open"]
    /\ UNCHANGED <<accVars, heap, handles, lastLoad, ctorVars, loaderVars, poolMutex, seq, ttVars>>

\* loadWeightFromFile: the file is opened and the loader runs
Open(t) ==
    /\ thr[t].pc = "open"
    /\ \E outcome \in LoadOutcomes, addr \in Addrs \ heap :
          IF outcome = "loaded"
          THEN /\ heap' = heap \cup {addr}
               /\ thr' = [thr EXCEPT ![t].pc = "push", ![t].outcome = outcome,
                                     ![t].addr = addr]
          ELSE /\ heap' = heap
               /\ thr' = [thr EXCEPT ![t].pc = "unlock", ![t].outcome = outcome,
                                     ![t].ret = nullptr]
    /\ UNCHANGED <<accVars, pool, handles, lastLoad, ctorVars, loaderVars, poolMutex, seq, ttVars>>

\* loadWeightFromFile: pool.push_back and return pool.back().weight.get()
Push(t) ==
    /\ thr[t].pc = "push"
    /\ pool' = Append(pool, [filepath |-> thr[t].filepath, weight |-> thr[t].addr,
                             refCount |-> 1])
    /\ thr' = [thr EXCEPT ![t].pc = "unlock", ![t].ret = thr[t].addr]
    /\ UNCHANGED <<accVars, heap, handles, lastLoad, ctorVars, loaderVars, poolMutex, seq, ttVars>>

\* unloadWeight: the loop over the pool
Scan(t) ==
    /\ thr[t].pc = "scan"
    /\ LET r == unloadWeight(pool, heap, thr[t].w)
       IN  /\ pool' = r.pool
           /\ heap' = r.heap
    /\ thr' = [thr EXCEPT ![t].pc = "unlock"]
    /\ UNCHANGED <<accVars, handles, lastLoad, ctorVars, loaderVars, poolMutex, seq, ttVars>>

\* the call made by thread t, made on the registry state sq with no other thread around
Sequential(sq, t) ==
    IF thr[t].op = "load"
    THEN loadWeightFromFile(sq.pool, sq.heap, thr[t].filepath,
                            IF thr[t].outcome = "cached" THEN "notOpen" ELSE thr[t].outcome,
                            thr[t].addr)
    ELSE unloadWeight(sq.pool, sq.heap, thr[t].w) @@ [ret |-> nullptr]

\* the lock_guard is destroyed and the call returns
Unlock(t) ==
    /\ thr[t].pc = "unlock"
    /\ poolMutex' = NoThread
    /\ thr' = [thr EXCEPT ![t].pc = "idle"]
    /\ handles' = IF thr[t].op = "load" /\ thr[t].ret # nullptr
                  THEN handles (+) SetToBag({[filepath |-> thr[t].filepath,
                                              weight |-> thr[t].ret]})
                  ELSE handles
    /\ LET r == Sequential(seq, t)
       IN  seq' = [pool |-> r.pool, heap |-> r.heap,
                   agree |-> seq.agree /\ r.ret = thr[t].ret]
    /\ UNCHANGED <<accVars, pool, heap, lastLoad, ctorVars, loaderVars, ttVars>>

InitThreads == NoEvaluator /\ EmptyRegistry /\ NoLoaderCalls

NextThreads ==
    \/ \E t \in Threads, filepath \in Paths : CallLoad(t, filepath)
    \/ \E t \in Threads, held \in BagToSet(handles) : CallUnload(t, held)
    \/ \E t \in Threads : Lock(t)
    \/ \E t \in Threads : Find(t)
    \/ \E t \in Threads : Open(t)
    \/ \E t \in Threads : Push(t)
    \/ \E t \in Threads : Scan(t)
    \/ \E t \in Threads : Unlock(t)

SpecThreads == InitThreads /\ [][NextThreads]_vars

-----------------------------------------------------------------------------
(* Mix8Accumulator objects of any board size: constructor, initIndexTable, destructor *)

\* the board sizes accumulators are constructed for
BoardSizes == MinBoardSize .. MaxBoardSize

\* 1.0f / n in float: infinite for n = 0
Reciprocal(n) == IF n = 0 THEN [finite |-> FALSE, over |-> 0] ELSE [finite |-> TRUE, over |-> n]

\* groupSize[i][j] after the counting loop over y and x
groupSizeOf(boardSize, gi) ==
    [i \in 0 .. NGroup - 1 |-> [j \in 0 .. NGroup - 1 |->
        Cardinality({c \in (0 .. boardSize - 1) \X (0 .. boardSize - 1) :
                        gi[c[2]] = i /\ gi[c[1]] = j})]]

\* Mix8Accumulator::Mix8Accumulator(boardSize); the new[] of indexTable leaves its
\* elements unwritten, which is the empty table here
Mix8Accumulator(boardSize) ==
    LET gi == groupIndexOf(boardSize)
        groupSize == groupSizeOf(boardSize, gi)
    IN  [boardSize |-> boardSize,
         fullBoardSize |-> boardSize + 2,
         groupIndex |-> gi,
         groupSize |-> groupSize,
         groupSizeScale |-> [i \in 0 .. NGroup - 1 |-> [j \in 0 .. NGroup - 1 |->
                                Reciprocal(groupSize[i][j])]],
         indexTable |-> <<>>]

\* std::make_unique<Mix8Accumulator>(boardSize)
NewAccumulator(boardSize) ==
    /\ Len(built) < MaxAccumulators
    /\ built' = Append(built, Mix8Accumulator(boardSize))
    /\ UNCHANGED <<accVars, regVars, files, evaluators, lastConstruct, loaderVars, thrVars,
                   ttVars>>

\* Mix8Accumulator::initIndexTable on the k-th accumulator
InitIndexTable(k) ==
    /\ built[k].indexTable = <<>>
    /\ built' = [built EXCEPT ![k].indexTable = IndexTableOf(built[k].boardSize)]
    /\ UNCHANGED <<accVars, regVars, files, evaluators, lastConstruct, loaderVars, thrVars,
                   ttVars>>

\* Mix8Accumulator::~Mix8Accumulator of the k-th accumulator
DeleteAccumulator(k) ==
    /\ built' = SubSeq(built, 1, k - 1) \o SubSeq(built, k + 1, Len(built))
    /\ UNCHANGED <<accVars, regVars, files, evaluators, lastConstruct, loaderVars, thrVars,
                   ttVars>>

InitBoards == NoEvaluator /\ EmptyRegistry /\ NoLoaderCalls

NextBoards ==
    \/ \E boardSize \in BoardSizes : NewAccumulator(boardSize)
    \/ \E k \in 1 .. Len(built) : InitIndexTable(k)
    \/ \E k \in 1 .. Len(built) : DeleteAccumulator(k)

SpecBoards == InitBoards /\ [][NextBoards]_vars

-----------------------------------------------------------------------------
(* Weight loaders: CompressedWrapper<StandardHeaderParserWarpper<Mix8BinaryWeightLoader>> *)

\* the header magic, crc32("gomoku network weight version 1"), and some other word
Magic == "0xacd8cc6a"
NotMagic == "0x00000000"

\* the architecture hash the evaluator was built with, and some other hash
ArchHash == 1
OtherArchHash == 0

FREESTYLE == "FREESTYLE"
STANDARD == "STANDARD"
RENJU == "RENJU"

\* number of 32-bit words of RawHeaderData
HeaderWords == 5

\* a stream as the header wrapper gets it: the header words that are there (fewer than
\* HeaderWords when the stream ends inside the header), the number of bytes after the
\* header, and whether num_head_buckets of the body is in range
Stream(header, rest, bodyValid) ==
    [header |-> header, rest |-> rest, bodyValid |-> bodyValid]

\* std::istream state after the header was read: bytes consumed since, failbit, eofbit
AfterHeader(stream) ==
    [pos |-> 0, fail |-> Len(stream.header) < HeaderWords,
     eof |-> Len(stream.header) < HeaderWords]

\* istream::read of n bytes: reads nothing when the stream is not good; sets eofbit and
\* failbit when the stream ends before n bytes
read(stream, st, n) ==
    IF st.fail \/ st.eof THEN [st EXCEPT !.fail = TRUE]
    ELSE IF st.pos + n <= stream.rest THEN [st EXCEPT !.pos = @ + n]
    ELSE [pos |-> stream.rest, fail |-> TRUE, eof |-> TRUE]

\* istream::ignore of n bytes: sets eofbit only when the stream ends before n bytes
ignore(stream, st, n) ==
    IF st.fail \/ st.eof THEN [st EXCEPT !.fail = TRUE]
    ELSE IF st.pos + n <= stream.rest THEN [st EXCEPT !.pos = @ + n]
    ELSE [pos |-> stream.rest, fail |-> FALSE, eof |-> TRUE]

\* Mix8BinaryWeightLoader::load: a weight iff num_head_buckets is in range, every read
\* succeeded and the stream ends where the weight ends
Mix8BinaryWeightLoader_load(stream, st) ==
    LET s1 == read(stream, st, WeightBytes)
    IN  ~s1.fail /\ stream.bodyValid /\ s1.pos = stream.rest

\* the rules named by a rule mask, in the order they are pushed
parseRuleMask(ruleMask) ==
    (IF ruleMask % 2 = 1 THEN <<FREESTYLE>> ELSE <<>>)
        \o (IF (ruleMask \div 2) % 2 = 1 THEN <<STANDARD>> ELSE <<>>)
        \o (IF (ruleMask \div 4) % 2 = 1 THEN <<RENJU>> ELSE <<>>)

\* the board sizes named by a board size mask: bit i stands for size i + 1
parseBoardSizeMask(boardSizeMask) ==
    {i + 1 : i \in {j \in 0 .. 30 : (boardSizeMask \div (2 ^ j)) % 2 = 1}}

contains(vec, x) == \E k \in 1 .. Len(vec) : vec[k] = x

\* the header validator the Mix8Evaluator constructor sets
Mix8Validator(rule, boardSize) == [kind |-> "mix8", rule |-> rule, boardSize |-> boardSize]

\* a validator that answers the same whatever the header: "true", "false" or "raise"
ConstValidator(answer) == [kind |-> "const", answer |-> answer]

NoValidator == [kind |-> "unset"]

\* headerValidator with the rule looked at before the architecture hash
headerValidator_RuleFirst(v, header) ==
    IF v.kind = "const" THEN v.answer
    ELSE IF ~contains(header.supportedRules, v.rule) THEN "UnsupportedRuleError"
    ELSE IF header.archHash # ArchHash THEN "IncompatibleWeightFileError"
    ELSE IF v.boardSize \notin header.supportedBoardSizes THEN "UnsupportedBoardSizeError"
    ELSE "true"

\* what calling the validator comes to: "true", "false" or the error it throws
headerValidator(v, header) ==
    IF v.kind = "const" THEN v.answer
    ELSE IF header.archHash # ArchHash THEN "IncompatibleWeightFileError"
    ELSE IF ~contains(header.supportedRules, v.rule) THEN "UnsupportedRuleError"
    ELSE IF v.boardSize \notin header.supportedBoardSizes THEN "UnsupportedBoardSizeError"
    ELSE "true"

\* StandardHeaderParserWarpper::load.  Header words the stream does not hold are not
\* written by the read: they have the values garbage gives.
StandardHeaderParserWarpper_load(stream, v, garbage) ==
    LET word(k) == IF k <= Len(stream.header) THEN stream.header[k] ELSE garbage[k]
        st0 == AfterHeader(stream)
        desc_len == word(5)
        none == [loaded |-> FALSE, raised |-> "none", innerCalled |-> FALSE,
                 validatorCalled |-> FALSE, consumed |-> 0]
    IN  IF word(1) # Magic THEN none
        ELSE IF v.kind # "unset"
        THEN LET st1 == read(stream, st0, desc_len)
                 verdict == headerValidator(v, [archHash |-> word(2),
                                               supportedRules |-> parseRuleMask(word(3)),
                                               supportedBoardSizes |->
                                                   parseBoardSizeMask(word(4))])
             IN  IF verdict = "true"
                 THEN [loaded |-> Mix8BinaryWeightLoader_load(stream, st1),
                       raised |-> "none", innerCalled |-> TRUE,
                       validatorCalled |-> TRUE, consumed |-> st1.pos]
                 ELSE [none EXCEPT !.raised = IF verdict = "false" THEN "none" ELSE verdict,
                                   !.validatorCalled = TRUE, !.consumed = st1.pos]
        ELSE LET st1 == ignore(stream, st0, desc_len)
             IN  [loaded |-> Mix8BinaryWeightLoader_load(stream, st1),
                  raised |-> "none", innerCalled |-> TRUE,
                  validatorCalled |-> FALSE, consumed |-> st1.pos]

\* CompressedWrapper::load: file.envelope tells whether the compressor opens a stream
CompressedWrapper_load(file, v, garbage) ==
    IF ~file.envelope
    THEN [loaded |-> FALSE, raised |-> "none", innerCalled |-> FALSE,
          validatorCalled |-> FALSE, consumed |-> 0]
    ELSE StandardHeaderParserWarpper_load(file.stream, v, garbage)

\* the header words a weight file of the model can hold
Headers ==
    {<<magic, arch_hash, rule_mask, boardsize_mask, desc_len>> :
        magic \in {Magic, NotMagic}, arch_hash \in {ArchHash, OtherArchHash},
        rule_mask \in {4, 5}, boardsize_mask \in {0, 2 ^ (BoardSize - 1)},
        desc_len \in 0 .. MaxDescLen}

Validators ==
    {NoValidator, ConstValidator("true"), ConstValidator("false"), ConstValidator("raise"),
     Mix8Validator(FREESTYLE, BoardSize)}

\* the calls of StandardHeaderParserWarpper::load of the model: mem is what headerData
\* holds after the read, of which the first n words came from the stream
ParseInputs ==
    {[stream |-> Stream(SubSeq(mem, 1, n), rest, bodyValid), validator |-> v,
      garbage |-> mem] :
        mem \in Headers, n \in {HeaderWords}, rest \in 0 .. MaxDescLen + WeightBytes + 1,
        bodyValid \in BOOLEAN, v \in Validators}
      \cup
    {[stream |-> Stream(SubSeq(mem, 1, n), 0, TRUE), validator |-> v, garbage |-> mem] :
        mem \in Headers, n \in 0 .. HeaderWords - 1, v \in Validators}

\* one call of StandardHeaderParserWarpper::load on the chosen stream
ParseHeader ==
    /\ lastParse.op = "none"
    /\ lastParse' = [op |-> "load",
                     result |-> StandardHeaderParserWarpper_load(
                                    parseInput.stream, parseInput.validator,
                                    parseInput.garbage)]
    /\ UNCHANGED <<accVars, regVars, ctorVars, parseInput, thrVars, ttVars>>

InitLoader ==
    /\ NoEvaluator /\ EmptyRegistry
    /\ files = <<>> /\ evaluators = EmptyBag /\ lastConstruct = NoConstruct /\ built = NoAccumulators
    /\ parseInput \in ParseInputs
    /\ lastParse = NoParse
    /\ NoThreads
    /\ NoHashTable

NextLoader == ParseHeader

SpecLoader == InitLoader /\ [][NextLoader]_vars

-----------------------------------------------------------------------------
(* Mix8Evaluator constructor and destructor, on the weight registry *)

\* a weight file: whether it opens, whether the compressor finds its entry, and the
\* stream the compressor gives
File(opens, envelope, stream) == [opens |-> opens, envelope |-> envelope, stream |-> stream]

\* a well-formed weight file for the board size of the model with the given rule mask
GoodFile(rule_mask) ==
    File(TRUE, TRUE,
         Stream(<<Magic, ArchHash, rule_mask, 2 ^ (BoardSize - 1), 0>>, WeightBytes, TRUE))

\* the weight files of the model: for RENJU only, for FREESTYLE and RENJU, of another
\* architecture, with a wrong magic, with a body that ends early, and one that does not
\* open
WeightFiles ==
    {GoodFile(4), GoodFile(5),
     File(TRUE, TRUE,
          Stream(<<Magic, OtherArchHash, 4, 2 ^ (BoardSize - 1), 0>>, WeightBytes, TRUE)),
     File(TRUE, TRUE,
          Stream(<<NotMagic, ArchHash, 5, 2 ^ (BoardSize - 1), 0>>, WeightBytes, TRUE)),
     File(TRUE, TRUE,
          Stream(<<Magic, ArchHash, 5, 2 ^ (BoardSize - 1), 0>>, WeightBytes - 1, TRUE)),
     File(FALSE, TRUE, Stream(<<>>, 0, TRUE))}

Rules == {FREESTYLE, RENJU}

\* what opening the file and running the constructor's loader on it comes to
LoaderOutcome(file, v) ==
    IF ~file.opens THEN [outcome |-> "notOpen", error |-> "none"]
    ELSE LET r == CompressedWrapper_load(file, v, file.stream.header)
         IN  IF r.raised # "none" THEN [outcome |-> "raised", error |-> r.raised]
             ELSE IF r.loaded THEN [outcome |-> "loaded", error |-> "none"]
             ELSE [outcome |-> "loadFailed", error |-> "none"]

\* the addresses the allocator can give for a new weight
FreeAddrs(h) == IF Addrs \ h = {} THEN {nullptr} ELSE Addrs \ h

\* one loop turn of the constructor: loadWeightFromFile with the constructor's loader,
\* and the error the constructor ends with, "none" if the weight was got
LoadSide(p, h, rule, weightPath, addr) ==
    LET o == LoaderOutcome(files[weightPath], Mix8Validator(rule, BoardSize))
        r == loadWeightFromFile(p, h, weightPath, o.outcome, addr)
    IN  [pool |-> r.pool, heap |-> r.heap, weight |-> r.ret,
         error |-> IF r.raised THEN o.error
                   ELSE IF r.ret = nullptr THEN "runtime_error"
                   ELSE "none"]

\* Mix8Evaluator::Mix8Evaluator: the weight of BLACK is loaded, then the weight of WHITE;
\* the first error ends the constructor, and the destructor does not run
Construct(rule, blackWeightPath, whiteWeightPath) ==
    /\ BagCardinality(evaluators) < MaxEvaluators
    /\ \E a1 \in FreeAddrs(heap) :
          LET b == LoadSide(pool, heap, rule, blackWeightPath, a1)
          IN  /\ b.error = "none" => b.weight # nullptr
              /\ IF b.error # "none"
                 THEN /\ pool' = b.pool
                      /\ heap' = b.heap
                      /\ evaluators' = evaluators
                      /\ lastConstruct' = [op |-> "construct", rule |-> rule,
                                           black |-> blackWeightPath,
                                           white |-> whiteWeightPath,
                                           result |-> b.error, before |-> pool]
                 ELSE \E a2 \in FreeAddrs(b.heap) :
                          LET w == LoadSide(b.pool, b.heap, rule, whiteWeightPath, a2)
                          IN  /\ w.error = "none" => w.weight # nullptr
                              /\ pool' = w.pool
                              /\ heap' = w.heap
                              /\ evaluators' =
                                     IF w.error = "none"
                                     THEN evaluators (+)
                                              SetToBag({[rule |-> rule,
                                                         weight |-> <<b.weight, w.weight>>]})
                                     ELSE evaluators
                              /\ lastConstruct' = [op |-> "construct", rule |-> rule,
                                                   black |-> blackWeightPath,
                                                   white |-> whiteWeightPath,
                                                   result |-> IF w.error = "none" THEN "ok"
                                                              ELSE w.error,
                                                   before |-> pool]
    /\ \A i \in 1 .. Len(pool') : pool'[i].refCount <= MaxRefCount
    /\ UNCHANGED <<accVars, handles, lastLoad, files, built, loaderVars, thrVars, ttVars>>

\* Mix8Evaluator::~Mix8Evaluator
Destruct(e) ==
    /\ BagIn(e, evaluators)
    /\ LET b == unloadWeight(pool, heap, e.weight[1])
           w == unloadWeight(b.pool, b.heap, e.weight[2])
       IN  /\ pool' = w.pool
           /\ heap' = w.heap
    /\ evaluators' = evaluators (-) SetToBag({e})
    /\ lastConstruct' = [op |-> "destruct"]
    /\ UNCHANGED <<accVars, handles, lastLoad, files, built, loaderVars, thrVars, ttVars>>

InitCtor ==
    /\ NoEvaluator /\ EmptyRegistry
    /\ files \in [Paths -> WeightFiles]
    /\ evaluators = EmptyBag
    /\ lastConstruct = NoConstruct /\ built = NoAccumulators
    /\ parseInput = NoParse
    /\ lastParse = NoParse
    /\ NoThreads
    /\ NoHashTable

NextCtor ==
    \/ \E rule \in Rules, blackWeightPath, whiteWeightPath \in Paths :
           Construct(rule, blackWeightPath, whiteWeightPath)
    \/ \E e \in BagToSet(evaluators) : Destruct(e)

SpecCtor == InitCtor /\ [][NextCtor]_vars

-----------------------------------------------------------------------------
(* Transposition table: TTEntry, HashTable::clear, probe and store               *)
(*                                                                                 *)
(* A 32-bit word is the pair <<low half, high half>> of the sets of one bits of   *)
(* its 16-bit halves, a 64-bit hash key the sequence of its four 16-bit limbs,     *)
(* lowest first.                                                                   *)

UsageShift == 10
ENTRIES_PER_BUCKET == EntriesPerBucket

DEPTH_LOWER_BOUND == -20
VALUE_MATE == 30000
VALUE_INFINITE == 30001
VALUE_NONE == -30002
MAX_PLY == 256
VALUE_MATE_IN_MAX_PLY == VALUE_MATE - MAX_PLY
VALUE_MATED_IN_MAX_PLY == MAX_PLY - VALUE_MATE

BOUND_NONE == 0
BOUND_UPPER == 1
BOUND_LOWER == 2
BOUND_EXACT == 3

\* Pos::NONE, and the packed Pos of the cell (x, y)
PosNONE == 0
Pos(x, y) == y * 32 + x

\* uint16_t(x)
U16(x) == x % 65536

\* uint8_t(x)
U8(x) == x % 256

\* the positions of the one bits of a 16-bit number
Bits(x) == {i \in 0 .. 15 : (x \div (2 ^ i)) % 2 = 1}

BitVal(S, i) == IF i \in S THEN 2 ^ i ELSE 0

\* the 16-bit number with the given one bits
FromBits(S) ==
    BitVal(S, 0) + BitVal(S, 1) + BitVal(S, 2) + BitVal(S, 3) + BitVal(S, 4)
        + BitVal(S, 5) + BitVal(S, 6) + BitVal(S, 7) + BitVal(S, 8) + BitVal(S, 9)
        + BitVal(S, 10) + BitVal(S, 11) + BitVal(S, 12) + BitVal(S, 13) + BitVal(S, 14)
        + BitVal(S, 15)

\* bitwise or of the one bits of two 16-bit patterns
OrBits(A, B) == A \cup B

\* exclusive or of the one bits of two 16-bit halves
XorBits(A, B) == (A \ B) \cup (B \ A)

\* exclusive or of two 32-bit words
Xor32(u, v) == <<XorBits(u[1], v[1]), XorBits(u[2], v[2])>>

\* the 32-bit word with the given 16-bit halves
Word(lo, hi) == <<Bits(lo), Bits(hi)>>

\* uint32_t(hashKey)
Key32(hashKey) == Word(hashKey[1], hashKey[2])

\* int16_t of a 16-bit pattern
I16(u) == IF u >= 32768 THEN u - 65536 ELSE u

\* a TTEntry is kept as the three 32-bit words it is made of: key32, data[0], which
\* aliases value16 (low half) and eval16, and data[1], which aliases pvBoundBest16 (low
\* half), depth8 and generation8 (high byte)
value16(e) == I16(FromBits(e.data0[1]))
eval16(e) == I16(FromBits(e.data0[2]))
pvBoundBest16(e) == FromBits(e.data1[1])
depth8(e) == FromBits(e.data1[2] \cap (0 .. 7))
generation8(e) == FromBits({i - 8 : i \in e.data1[2] \cap (8 .. 15)})

\* TTEntry::key()
key(e) == Xor32(Xor32(e.key32, e.data0), e.data1)

\* an entry of zero bytes
ZeroEntry == [key32 |-> Word(0, 0), data0 |-> Word(0, 0), data1 |-> Word(0, 0)]

\* data[1] after generation8 was assigned
SetGeneration8(d1, gen) == <<d1[1], (d1[2] \cap (0 .. 7)) \cup {i + 8 : i \in Bits(U8(gen))}>>

\* index of the bucket of a hash key: (hashKey * numBuckets) >> 64, limb by limb
firstEntry(hashKey) ==
    LET c0 == (hashKey[1] * numBuckets) \div 65536
        c1 == (hashKey[2] * numBuckets + c0) \div 65536
        c2 == (hashKey[3] * numBuckets + c1) \div 65536
    IN  (hashKey[4] * numBuckets + c2) \div 65536

searchValueToStoredValue(value, ply) ==
    IF value = VALUE_NONE THEN VALUE_NONE
    ELSE IF value >= VALUE_MATE_IN_MAX_PLY THEN value + ply
    ELSE IF value <= VALUE_MATED_IN_MAX_PLY THEN value - ply
    ELSE value

storedValueToSearchValue(value, ply) ==
    IF value = VALUE_NONE THEN VALUE_NONE
    ELSE IF value >= VALUE_MATE_IN_MAX_PLY THEN value - ply
    ELSE IF value <= VALUE_MATED_IN_MAX_PLY THEN value + ply
    ELSE value

\* HashTable::clear
clearTable == [b \in 0 .. numBuckets - 1 |-> [i \in 1 .. ENTRIES_PER_BUCKET |-> ZeroEntry]]

\* the fields probe gives out for the local copy tte
Decode(tte, ply) ==
    [ttValue |-> storedValueToSearchValue(value16(tte), ply),
     ttEval |-> eval16(tte),
     ttIsPv |-> pvBoundBest16(tte) \div 32768 = 1,
     ttBound |-> (pvBoundBest16(tte) \div 8192) % 4,
     ttMove |-> pvBoundBest16(tte) % 1024,
     ttDepth |-> depth8(tte) + DEPTH_LOWER_BOUND]

\* Touch without the write to key32
Touch_KeepKey32(e, tte, gen) == [e EXCEPT !.data1 = SetGeneration8(@, gen)]

\* the entry after probe's write-back on a hit: generation8, then key32
Touch(e, tte, gen) ==
    LET g == [e EXCEPT !.data1 = SetGeneration8(@, gen)]
    IN  [g EXCEPT !.key32 = Xor32(e.key32, Xor32(tte.data1, g.data1))]

\* slot of the first entry of the bucket whose key() is key32, 0 if there is none
MatchSlot(entry, key32) ==
    IF \E i \in 1 .. ENTRIES_PER_BUCKET : key(entry[i]) = key32
    THEN CHOOSE i \in 1 .. ENTRIES_PER_BUCKET :
             /\ key(entry[i]) = key32
             /\ \A j \in 1 .. i - 1 : key(entry[j]) # key32
    ELSE 0

\* HashTable::probe
probe(tbl, gen, hashKey, ply) ==
    LET b == firstEntry(hashKey)
        i == MatchSlot(tbl[b], Key32(hashKey))
    IN  IF i = 0 THEN [hit |-> FALSE, table |-> tbl, slot |-> 0]
        ELSE [hit |-> TRUE, slot |-> i, out |-> Decode(tbl[b][i], ply),
              table |-> [tbl EXCEPT ![b][i] = Touch(@, @, gen)]]

\* the rank of an entry in store: the lower, the sooner it is replaced
replaceValue(e, gen) == depth8(e) - (gen - generation8(e))

RECURSIVE ReplaceSlot(_, _, _, _, _)
\* a loop that moves replace on ties too
ReplaceSlot_LastOfTies(entry, gen, newKey32, i, r) ==
    IF \E j \in 1 .. ENTRIES_PER_BUCKET : key(entry[j]) = newKey32
    THEN CHOOSE j \in 1 .. ENTRIES_PER_BUCKET :
             key(entry[j]) = newKey32 /\ \A k \in 1 .. j - 1 : key(entry[k]) # newKey32
    ELSE CHOOSE j \in 1 .. ENTRIES_PER_BUCKET :
             /\ \A k \in 1 .. ENTRIES_PER_BUCKET :
                    replaceValue(entry[j], gen) <= replaceValue(entry[k], gen)
             /\ \A k \in j + 1 .. ENTRIES_PER_BUCKET :
                    replaceValue(entry[j], gen) < replaceValue(entry[k], gen)

\* a loop that does not look for the key and takes the first slot of least rank
ReplaceSlot_RankOnly(entry, gen, newKey32, i, r) ==
    CHOOSE j \in 1 .. ENTRIES_PER_BUCKET :
        /\ \A k \in 1 .. ENTRIES_PER_BUCKET :
               replaceValue(entry[j], gen) <= replaceValue(entry[k], gen)
        /\ \A k \in 1 .. j - 1 :
               replaceValue(entry[k], gen) > replaceValue(entry[j], gen)

\* the loop of store from slot i on, with replace pointing at slot r
ReplaceSlot(entry, gen, newKey32, i, r) ==
    IF i > ENTRIES_PER_BUCKET THEN r
    ELSE IF key(entry[i]) = newKey32 THEN i
    ELSE ReplaceSlot(entry, gen, newKey32, i + 1,
                     IF replaceValue(entry[i], gen)
                            < replaceValue(entry[r], gen)
                     THEN i ELSE r)

\* an entry whose key32 is the plain key
NewEntry_PlainKey(gen, newKey32, value, eval, isPv, bound, move, depth, ply) ==
    [key32 |-> newKey32,
     data0 |-> Word(U16(Wrap16(searchValueToStoredValue(value, ply))), U16(Wrap16(eval))),
     data1 |-> <<OrBits(OrBits(Bits(U16((IF isPv THEN 1 ELSE 0) * 32768)),
                               Bits(U16(bound * 8192))),
                        Bits(U16(move))),
                 Bits(U8(depth - DEPTH_LOWER_BOUND) + 256 * U8(gen))>>]

\* the entry store builds on its stack
NewEntry(gen, newKey32, value, eval, isPv, bound, move, depth, ply) ==
    LET d0 == Word(U16(Wrap16(searchValueToStoredValue(value, ply))), U16(Wrap16(eval)))
        d1 == <<OrBits(OrBits(Bits(U16((IF isPv THEN 1 ELSE 0) * 32768)),
                              Bits(U16(bound * 8192))),
                       Bits(U16(move))),
                Bits(U8(depth - DEPTH_LOWER_BOUND) + 256 * U8(gen))>>
    IN  [key32 |-> Xor32(Xor32(newKey32, d0), d1), data0 |-> d0, data1 |-> d1]

\* store that overwrites whatever the depth and bound of the record it finds
SkipStore_Never(bound, newKey32, oldKey32, depth, old) == FALSE

\* the test of store that leaves the record of the same position in place
SkipStore(bound, newKey32, oldKey32, depth, old) ==
    /\ bound # BOUND_EXACT
    /\ newKey32 = oldKey32
    /\ depth + 2 < depth8(old) + DEPTH_LOWER_BOUND

\* store that always writes the move it is given
KeepMove_Never(move, newKey32, oldKey32, old) == move

\* the move store writes
KeepMove(move, newKey32, oldKey32, old) ==
    IF move = PosNONE /\ newKey32 = oldKey32 THEN pvBoundBest16(old) % 1024 ELSE move

\* HashTable::store
store(tbl, gen, hashKey, value, eval, isPv, bound, move, depth, ply) ==
    LET b == firstEntry(hashKey)
        newKey32 == Key32(hashKey)
        r == ReplaceSlot(tbl[b], gen, newKey32, 1, 1)
        old == tbl[b][r]
        oldKey32 == key(old)
    IN  IF SkipStore(bound, newKey32, oldKey32, depth, old)
        THEN [skipped |-> TRUE, slot |-> r, table |-> tbl]
        ELSE [skipped |-> FALSE, slot |-> r,
              table |-> [tbl EXCEPT ![b][r] =
                            NewEntry(gen, newKey32, value, eval, isPv, bound,
                                     KeepMove(move, newKey32, oldKey32, old),
                                     depth, ply)]]

\* the hash keys of the model: 0xDEADBEEFCAFEBABE, a key whose low 32 bits are zero, and
\* a third key
HashKeys ==
    {<<47806, 51966, 48879, 57005>>, <<0, 0, 1, 0>>, <<1, 0, 0, 0>>}

StoreArgs(value, eval, isPv, bound, move, depth, ply) ==
    [value |-> value, eval |-> eval, isPv |-> isPv, bound |-> bound, move |-> move,
     depth |-> depth, ply |-> ply]

\* the records the search stores in the model
StoreCalls ==
    {StoreArgs(100, 50, TRUE, BOUND_EXACT, Pos(7, 7), DEPTH_LOWER_BOUND + 5, 2),
     StoreArgs(100, 50, FALSE, BOUND_UPPER, PosNONE, DEPTH_LOWER_BOUND + 2, 2),
     StoreArgs(VALUE_MATE - 3, -7, FALSE, BOUND_LOWER, Pos(3, 4), DEPTH_LOWER_BOUND + 3, 2)}

Plies == {2}

\* what the table holds for a key: whether an entry of the bucket has its key32 and, if
\* so, the depth and the move of the first such entry
Lookup(tbl, hashKey) ==
    LET i == MatchSlot(tbl[firstEntry(hashKey)], Key32(hashKey))
    IN  IF i = 0 THEN [present |-> FALSE, depth |-> 0, move |-> PosNONE]
        ELSE [present |-> TRUE,
              depth |-> depth8(tbl[firstEntry(hashKey)][i]) + DEPTH_LOWER_BOUND,
              move |-> pvBoundBest16(tbl[firstEntry(hashKey)][i]) % 1024]

\* the search stores a record
TTStore(hashKey, a) ==
    /\ \E r \in {store(table, generation, hashKey, a.value, a.eval, a.isPv, a.bound,
                       a.move, a.depth, a.ply)} :
           /\ table' = r.table
           /\ lastTT' = [op |-> "store", fresh |-> FALSE, hashKey |-> hashKey, args |-> a,
                         skipped |-> r.skipped, unchanged |-> r.table = table,
                         old |-> Lookup(table, hashKey),
                         evictedMove |->
                             pvBoundBest16(table[firstEntry(hashKey)][r.slot]) % 1024,
                         slot |-> r.slot,
                         matched |-> MatchSlot(table[firstEntry(hashKey)], Key32(hashKey)),
                         ranks |-> [i \in 1 .. ENTRIES_PER_BUCKET |->
                                       replaceValue(table[firstEntry(hashKey)][i], generation)],
                         othersSame |->
                             \A b \in 0 .. numBuckets - 1, i \in 1 .. ENTRIES_PER_BUCKET :
                                 b # firstEntry(hashKey) \/ i # r.slot =>
                                     r.table[b][i] = table[b][i]]
    /\ UNCHANGED <<generation, raceVars>>
    /\ UNCHANGED <<accVars, regVars, ctorVars, loaderVars, thrVars, sizeVars>>

\* the search probes a key; the record keeps the store that came right before the probe
\* when it was made for the same key and ply
TTProbe(hashKey, ply) ==
    /\ \E r \in {probe(table, generation, hashKey, ply)} :
           /\ table' = r.table
           /\ lastTT' = [op |-> "probe", fresh |-> lastTT.fresh, hashKey |-> hashKey,
                         ply |-> ply, hit |-> r.hit,
                         out |-> IF r.hit THEN r.out ELSE <<>>,
                         slot |-> r.slot,
                         was |-> IF r.hit
                                 THEN generation8(table[firstEntry(hashKey)][r.slot])
                                 ELSE 0,
                         prev |-> IF /\ lastTT.op = "store"
                                     /\ lastTT.hashKey = hashKey
                                     /\ lastTT.args.ply = ply
                                  THEN lastTT ELSE NoTTCall]
    /\ UNCHANGED <<generation, raceVars>>
    /\ UNCHANGED <<accVars, regVars, ctorVars, loaderVars, thrVars, sizeVars>>

\* HashTable::clear
TTClear ==
    /\ table' = clearTable
    /\ generation' = 0
    /\ lastTT' = [op |-> "clear", fresh |-> TRUE]
    /\ UNCHANGED raceVars
    /\ UNCHANGED <<accVars, regVars, ctorVars, loaderVars, thrVars, sizeVars>>

\* a new search starts
incGeneration ==
    /\ generation < MaxGeneration
    /\ generation' = U8(generation + 1)
    /\ lastTT' = [op |-> "incGeneration", fresh |-> lastTT.fresh]
    /\ UNCHANGED <<table, raceVars>>
    /\ UNCHANGED <<accVars, regVars, ctorVars, loaderVars, thrVars, sizeVars>>

\* the table right after HashTable::HashTable: resize has cleared it
InitTT ==
    /\ NoEvaluator /\ EmptyRegistry
    /\ files = <<>> /\ evaluators = EmptyBag /\ lastConstruct = NoConstruct /\ built = NoAccumulators
    /\ parseInput = NoParse /\ lastParse = NoParse
    /\ NoThreads
    /\ numBuckets = NumBuckets
    /\ clearing = NoClear
    /\ dumped = NoStream
    /\ table = clearTable
    /\ generation = 0
    /\ lastTT = NoTTCall
    /\ NoSearchers

NextTT ==
    \/ \E hashKey \in HashKeys, a \in StoreCalls : TTStore(hashKey, a)
    \/ \E hashKey \in HashKeys, ply \in Plies : TTProbe(hashKey, ply)
    \/ TTClear
    \/ incGeneration

SpecTT == InitTT /\ [][NextTT]_vars

\* a new search starts when generation is within MaxGeneration of its highest value:
\* the 8-bit counter wraps to 0
incGenerationWrap ==
    /\ generation + MaxGeneration >= 2 ^ 8
    /\ generation' = U8(generation + 1)
    /\ lastTT' = [op |-> "incGeneration", fresh |-> lastTT.fresh]
    /\ UNCHANGED <<table, raceVars>>
    /\ UNCHANGED <<accVars, regVars, ctorVars, loaderVars, thrVars, sizeVars>>

\* the table after 2 ^ 8 - MaxGeneration searches that stored nothing
InitWrap ==
    /\ NoEvaluator /\ EmptyRegistry
    /\ files = <<>> /\ evaluators = EmptyBag /\ lastConstruct = NoConstruct /\ built = NoAccumulators
    /\ parseInput = NoParse /\ lastParse = NoParse
    /\ NoThreads
    /\ numBuckets = NumBuckets
    /\ clearing = NoClear
    /\ dumped = NoStream
    /\ table = clearTable
    /\ generation = 2 ^ 8 - MaxGeneration
    /\ lastTT = NoTTCall
    /\ NoSearchers

NextWrap ==
    \/ \E hashKey \in HashKeys, a \in StoreCalls : TTStore(hashKey, a)
    \/ \E hashKey \in HashKeys, ply \in Plies : TTProbe(hashKey, ply)
    \/ incGenerationWrap

SpecWrap == InitWrap /\ [][NextWrap]_vars

-----------------------------------------------------------------------------
(* The hash table shared by the search threads.  store and probe take no lock: a    *)
(* thread reads and writes an entry one 32-bit word at a time, in any order, and    *)
(* the words of two calls on one entry interleave.  store runs its replace loop and *)
(* builds newEntry in one step; probe's hit test is part of the read that completes *)
(* its copy.                                                                        *)

Words == {"key32", "data0", "data1"}

\* a call is known by its thread and its rank among the calls of the thread
NoCallId == <<0, 0>>

IdleSearcher(calls) ==
    [pc |-> "idle", id |-> NoCallId, hashKey |-> <<>>, i |-> 0, tte |-> ZeroEntry,
     left |-> {}, d1 |-> Word(0, 0), k32 |-> Word(0, 0), kw |-> NoCallId, calls |-> calls]

AllIdle == \A t \in Threads : searcher[t].pc = "idle"

\* the keys the threads use: two keys of one bucket that differ in bit 17
RaceKeys == {<<1, 0, 0, 0>>, <<1, 2, 0, 0>>}

\* the records the threads store: two searches of one position, the deeper one with
\* another value
RaceStoreCalls ==
    {StoreArgs(100, 50, TRUE, BOUND_EXACT, Pos(7, 7), DEPTH_LOWER_BOUND + 5, 2),
     StoreArgs(-100, 50, TRUE, BOUND_EXACT, Pos(7, 7), DEPTH_LOWER_BOUND + 7, 2)}

\* store, up to the construction of newEntry (l.281-320)
StoreEnter(t, hashKey, a) ==
    /\ searcher[t].pc = "idle"
    /\ searcher[t].calls < MaxSearchCalls
    /\ \E r \in {store(table, generation, hashKey, a.value, a.eval, a.isPv, a.bound,
                       a.move, a.depth, a.ply)} :
       \E id \in {<<t, searcher[t].calls + 1>>} :
           IF r.skipped
           THEN /\ searcher' = [searcher EXCEPT ![t] = IdleSearcher(@.calls + 1)]
                /\ UNCHANGED made
           ELSE /\ searcher' = [searcher EXCEPT ![t] =
                       [IdleSearcher(@.calls + 1) EXCEPT
                           !.pc = "write", !.id = id, !.hashKey = hashKey, !.i = r.slot,
                           !.tte = r.table[firstEntry(hashKey)][r.slot], !.left = Words]]
                /\ made' = made \cup {[id |-> id, hashKey |-> hashKey,
                                        entry |-> r.table[firstEntry(hashKey)][r.slot]]}
    /\ UNCHANGED <<table, generation, lastTT, writer>>
    /\ UNCHANGED <<accVars, regVars, ctorVars, loaderVars, thrVars, sizeVars>>

\* *replace = newEntry (l.322): one word of newEntry reaches the shared entry
StoreWord(t, w) ==
    LET me == searcher[t]
        b == firstEntry(me.hashKey)
    IN  /\ me.pc = "write"
        /\ w \in me.left
        /\ table' = [table EXCEPT ![b][me.i][w] = me.tte[w]]
        /\ writer' = [writer EXCEPT ![b][me.i][w] = me.id]
        /\ searcher' = [searcher EXCEPT ![t] =
               IF me.left = {w} THEN IdleSearcher(me.calls)
               ELSE [me EXCEPT !.left = @ \ {w}]]
        /\ UNCHANGED <<generation, lastTT, made>>
        /\ UNCHANGED <<accVars, regVars, ctorVars, loaderVars, thrVars, sizeVars>>

\* probe is entered (l.246-247)
ProbeEnter(t, hashKey) ==
    /\ searcher[t].pc = "idle"
    /\ searcher[t].calls < MaxSearchCalls
    /\ searcher' = [searcher EXCEPT ![t] =
           [IdleSearcher(@.calls + 1) EXCEPT
               !.pc = "copy", !.id = <<t, searcher[t].calls + 1>>, !.hashKey = hashKey,
               !.i = 1, !.left = Words]]
    /\ UNCHANGED <<table, generation, lastTT, writer, made>>
    /\ UNCHANGED <<accVars, regVars, ctorVars, loaderVars, thrVars, sizeVars>>

\* what a probe call gave
ProbeResult(hashKey, hit, tte) ==
    [op |-> "probe", fresh |-> FALSE, hashKey |-> hashKey, ply |-> 2, hit |-> hit,
     out |-> IF hit THEN Decode(tte, 2) ELSE <<>>, prev |-> NoTTCall]

\* TTEntry tte = entry[i] (l.251): one word of the shared entry reaches the copy; with
\* the last word the key is tested (l.253) and the loop goes on or ends (l.250, l.269)
ProbeCopyWord(t, w) ==
    LET me == searcher[t]
        b == firstEntry(me.hashKey)
        tte == [me.tte EXCEPT ![w] = table[b][me.i][w]]
    IN  /\ me.pc = "copy"
        /\ w \in me.left
        /\ IF me.left # {w}
           THEN /\ searcher' = [searcher EXCEPT ![t] = [me EXCEPT !.tte = tte, !.left = @ \ {w}]]
                /\ UNCHANGED lastTT
           ELSE IF key(tte) = Key32(me.hashKey)
           THEN /\ searcher' = [searcher EXCEPT ![t] =
                       [me EXCEPT !.tte = tte, !.left = {}, !.pc = "bump"]]
                /\ UNCHANGED lastTT
           ELSE IF me.i < ENTRIES_PER_BUCKET
           THEN /\ searcher' = [searcher EXCEPT ![t] =
                       [me EXCEPT !.tte = ZeroEntry, !.left = Words, !.i = @ + 1]]
                /\ UNCHANGED lastTT
           ELSE /\ searcher' = [searcher EXCEPT ![t] = IdleSearcher(me.calls)]
                /\ lastTT' = ProbeResult(me.hashKey, FALSE, tte)
        /\ UNCHANGED <<table, generation, writer, made>>
        /\ UNCHANGED <<accVars, regVars, ctorVars, loaderVars, thrVars, sizeVars>>

\* entry[i].generation8 = generation (l.255)
ProbeBump(t) ==
    LET me == searcher[t]
        b == firstEntry(me.hashKey)
    IN  /\ me.pc = "bump"
        /\ table' = [table EXCEPT ![b][me.i].data1 = SetGeneration8(@, generation)]
        /\ searcher' = [searcher EXCEPT ![t].pc = "readData1"]
        /\ UNCHANGED <<generation, lastTT, writer, made>>
        /\ UNCHANGED <<accVars, regVars, ctorVars, loaderVars, thrVars, sizeVars>>

\* entry[i].key32 ^= tte.data[1] ^ entry[i].data[1] (l.256): entry[i].data[1] is read
ProbeReadData1(t) ==
    LET me == searcher[t]
        b == firstEntry(me.hashKey)
    IN  /\ me.pc = "readData1"
        /\ searcher' = [searcher EXCEPT ![t] =
               [me EXCEPT !.d1 = table[b][me.i].data1, !.pc = "readKey32"]]
        /\ UNCHANGED <<table, generation, lastTT, writer, made>>
        /\ UNCHANGED <<accVars, regVars, ctorVars, loaderVars, thrVars, sizeVars>>

\* l.256: entry[i].key32 is read
ProbeReadKey32(t) ==
    LET me == searcher[t]
        b == firstEntry(me.hashKey)
    IN  /\ me.pc = "readKey32"
        /\ searcher' = [searcher EXCEPT ![t] =
               [me EXCEPT !.k32 = table[b][me.i].key32, !.kw = writer[b][me.i].key32,
                          !.pc = "writeKey32"]]
        /\ UNCHANGED <<table, generation, lastTT, writer, made>>
        /\ UNCHANGED <<accVars, regVars, ctorVars, loaderVars, thrVars, sizeVars>>

\* l.256: entry[i].key32 is written; the outputs are set from the copy and probe
\* returns true (l.258-265)
ProbeWriteKey32(t) ==
    LET me == searcher[t]
        b == firstEntry(me.hashKey)
    IN  /\ me.pc = "writeKey32"
        /\ table' = [table EXCEPT ![b][me.i].key32 =
                         Xor32(me.k32, Xor32(me.tte.data1, me.d1))]
        /\ writer' = [writer EXCEPT ![b][me.i].key32 = me.kw]
        /\ searcher' = [searcher EXCEPT ![t] = IdleSearcher(me.calls)]
        /\ lastTT' = ProbeResult(me.hashKey, TRUE, me.tte)
        /\ UNCHANGED <<generation, made>>
        /\ UNCHANGED <<accVars, regVars, ctorVars, loaderVars, thrVars, sizeVars>>

\* a new search starts while no thread is searching
NewSearch ==
    /\ AllIdle
    /\ generation < MaxGeneration
    /\ generation' = U8(generation + 1)
    /\ UNCHANGED <<table, lastTT, raceVars>>
    /\ UNCHANGED <<accVars, regVars, ctorVars, loaderVars, thrVars, sizeVars>>

\* the store made before the threads started
FirstCallId == <<0, 1>>
FirstKey == <<1, 0, 0, 0>>
FirstStore == StoreArgs(100, 50, TRUE, BOUND_EXACT, Pos(7, 7), DEPTH_LOWER_BOUND + 5, 2)

\* the table holds one record, stored on the cleared table, when the threads start
InitTTRace ==
    /\ NoEvaluator /\ EmptyRegistry
    /\ files = <<>> /\ evaluators = EmptyBag /\ lastConstruct = NoConstruct /\ built = NoAccumulators
    /\ parseInput = NoParse /\ lastParse = NoParse
    /\ NoThreads
    /\ numBuckets = NumBuckets
    /\ clearing = NoClear
    /\ dumped = NoStream
    /\ generation = 0
    /\ lastTT = NoTTCall
    /\ searcher = [t \in Threads |-> IdleSearcher(0)]
    /\ \E hashKey \in {FirstKey}, a \in {FirstStore} :
       \E r \in {store(clearTable, 0, hashKey, a.value, a.eval, a.isPv, a.bound, a.move,
                       a.depth, a.ply)} :
           /\ table = r.table
           /\ writer = [b \in 0 .. numBuckets - 1 |->
                           [i \in 1 .. ENTRIES_PER_BUCKET |->
                               [w \in Words |->
                                   IF b = firstEntry(hashKey) /\ i = r.slot
                                   THEN FirstCallId ELSE NoCallId]]]
           /\ made = {[id |-> FirstCallId, hashKey |-> hashKey,
                       entry |-> r.table[firstEntry(hashKey)][r.slot]]}

NextTTRace ==
    \/ \E t \in Threads, hashKey \in RaceKeys, a \in RaceStoreCalls : StoreEnter(t, hashKey, a)
    \/ \E t \in Threads, w \in Words : StoreWord(t, w)
    \/ \E t \in Threads, hashKey \in RaceKeys : ProbeEnter(t, hashKey)
    \/ \E t \in Threads, w \in Words : ProbeCopyWord(t, w)
    \/ \E t \in Threads : ProbeBump(t)
    \/ \E t \in Threads : ProbeReadData1(t)
    \/ \E t \in Threads : ProbeReadKey32(t)
    \/ \E t \in Threads : ProbeWriteKey32(t)
    \/ NewSearch

SpecTTRace == InitTTRace /\ [][NextTTRace]_vars

-----------------------------------------------------------------------------
(* HashTable::clear with MULTI_THREADING: one worker thread per search thread zeroes *)
(* its slab of the table; clear joins them and resets generation.                   *)

\* len of the slab of worker idx that owns every bucket from start on
SlabLen_Stride(idx, numThreads, stride) == stride

\* size_t len = idx != numThreads - 1 ? stride : numBuckets - start (l.222)
SlabLen(idx, numThreads, stride) ==
    IF idx # numThreads - 1 THEN stride ELSE numBuckets - stride * idx

\* the buckets memset of worker idx writes: &table[start], len * sizeof(Bucket) (l.221-224)
Slab(idx, numThreads, stride) ==
    {b \in 0 .. numBuckets - 1 :
        stride * idx <= b /\ b < stride * idx + SlabLen(idx, numThreads, stride)}

ZeroBucket == [i \in 1 .. ENTRIES_PER_BUCKET |-> ZeroEntry]

\* clear is entered with Threads.size() = size and starts its workers (l.210-226)
ClearEnter(size) ==
    /\ clearing = NoClear
    /\ clearing' = [pc |-> "running",
                    numThreads |-> Max(size, 1),
                    stride |-> numBuckets \div Max(size, 1),
                    left |-> 0 .. Max(size, 1) - 1,
                    slabs |-> [idx \in 0 .. Max(size, 1) - 1 |-> {}]]
    /\ lastTT' = [op |-> "clearEnter", fresh |-> lastTT.fresh]
    /\ UNCHANGED <<table, generation, raceVars, numBuckets, dumped>>
    /\ UNCHANGED <<accVars, regVars, ctorVars, loaderVars, thrVars>>

\* worker idx runs (l.215-225)
ClearSlab(idx) ==
    /\ clearing.pc = "running"
    /\ idx \in clearing.left
    /\ \E slab \in {Slab(idx, clearing.numThreads, clearing.stride)} :
           /\ table' = [b \in 0 .. numBuckets - 1 |->
                           IF b \in slab THEN ZeroBucket ELSE table[b]]
           /\ clearing' = [clearing EXCEPT !.left = @ \ {idx}, !.slabs[idx] = slab]
    /\ UNCHANGED <<generation, lastTT, raceVars, numBuckets, dumped>>
    /\ UNCHANGED <<accVars, regVars, ctorVars, loaderVars, thrVars>>

\* the workers are joined, generation is reset and clear returns (l.228-234)
ClearJoin ==
    /\ clearing.pc = "running"
    /\ clearing.left = {}
    /\ generation' = 0
    /\ clearing' = NoClear
    /\ lastTT' = [op |-> "clear", fresh |-> TRUE, numThreads |-> clearing.numThreads,
                  slabs |-> clearing.slabs]
    /\ UNCHANGED <<table, raceVars, numBuckets, dumped>>
    /\ UNCHANGED <<accVars, regVars, ctorVars, loaderVars, thrVars>>

\* a table of 1 to MaxClearBuckets buckets right after resize
InitClear ==
    /\ NoEvaluator /\ EmptyRegistry
    /\ files = <<>> /\ evaluators = EmptyBag /\ lastConstruct = NoConstruct /\ built = NoAccumulators
    /\ parseInput = NoParse /\ lastParse = NoParse
    /\ NoThreads
    /\ numBuckets \in 1 .. MaxClearBuckets
    /\ clearing = NoClear
    /\ dumped = NoStream
    /\ table = clearTable
    /\ generation = 0
    /\ lastTT = NoTTCall
    /\ NoSearchers

NextClear ==
    \/ \E hashKey \in HashKeys : clearing = NoClear /\ TTStore(hashKey, FirstStore)
    \/ clearing = NoClear /\ incGeneration
    \/ \E size \in 0 .. MaxWorkers : ClearEnter(size)
    \/ \E idx \in 0 .. MaxWorkers - 1 : ClearSlab(idx)
    \/ ClearJoin

SpecClear == InitClear /\ [][NextClear]_vars

-----------------------------------------------------------------------------
(* HashTable::resize, dump, load and hashUsage.  A stream is the sequence of the    *)
(* items dump writes: the magic string, numBuckets as the 16-bit limbs of a size_t, *)
(* the generation byte, and the three 32-bit words of every entry, bucket by        *)
(* bucket.  The compressor is taken to give back the items it was given.            *)

HashDumpMagicString == "RAPFI HASH DUMP VER 001"
OtherMagicString == "RAPFI HASH DUMP VER 000"

\* items before the first bucket: magic, numBuckets, generation
DumpHeaderItems == 3

\* object representation of a size_t, low limb first
SizeLimbs(n) == <<n % 65536, (n \div 65536) % 65536, 0, 0>>
FromLimbs(l) == l[1] + 65536 * l[2]

WordsOfEntry(e) == <<e.key32, e.data0, e.data1>>
WordsPerEntry == Len(WordsOfEntry(ZeroEntry))
WordsPerBucket == WordsPerEntry * ENTRIES_PER_BUCKET

RECURSIVE WordsOfSlots(_, _)
WordsOfSlots(bucket, i) ==
    IF i > ENTRIES_PER_BUCKET THEN <<>>
    ELSE WordsOfEntry(bucket[i]) \o WordsOfSlots(bucket, i + 1)

RECURSIVE WordsOfBuckets(_, _, _)
\* a loop that stops one bucket early
WordsOfBuckets_Short(tbl, n, i) ==
    IF i >= n - 1 THEN <<>>
    ELSE WordsOfSlots(tbl[i], 1) \o WordsOfBuckets(tbl, n, i + 1)

\* the loop of dump from bucket i on (l.336-339)
WordsOfBuckets(tbl, n, i) ==
    IF i >= n THEN <<>>
    ELSE WordsOfSlots(tbl[i], 1) \o WordsOfBuckets(tbl, n, i + 1)

\* HashTable::dump
dump(tbl, n, gen) ==
    [open |-> TRUE,
     data |-> <<HashDumpMagicString, SizeLimbs(n), gen>> \o WordsOfBuckets(tbl, n, 0)]

\* in->peek() == eof when every item up to pos was read
AtEof_Always(stream, pos) == TRUE
AtEof(stream, pos) == pos = Len(stream.data)

\* HashTable::load.  An item the stream does not hold is not read: the read fails, every
\* later read does nothing and the target keeps what it held, which for the local magic
\* and for the newly allocated table is indeterminate: magicMatches says whether the
\* unread magic compares equal, fill is what the unread entries of the new table hold.
load(stream, oldTable, oldNumBuckets, oldGeneration, magicMatches, fill) ==
    LET data == stream.data
        same == [ret |-> FALSE, numBuckets |-> oldNumBuckets,
                 generation |-> oldGeneration, table |-> oldTable]
        magicOk == IF Len(data) >= 1 THEN data[1] = HashDumpMagicString ELSE magicMatches
        nb == IF Len(data) >= 2 THEN FromLimbs(data[2]) ELSE oldNumBuckets
        gen == IF Len(data) >= 3 THEN data[3] ELSE oldGeneration
        word(k) == data[DumpHeaderItems + k]
        has(k) == Len(data) >= DumpHeaderItems /\ DumpHeaderItems + k <= Len(data)
        entry(b, i) ==
            LET k == (b * ENTRIES_PER_BUCKET + (i - 1)) * WordsPerEntry
            IN  [key32 |-> IF has(k + 1) THEN word(k + 1) ELSE fill.key32,
                 data0 |-> IF has(k + 2) THEN word(k + 2) ELSE fill.data0,
                 data1 |-> IF has(k + 3) THEN word(k + 3) ELSE fill.data1]
        end == DumpHeaderItems + nb * WordsPerBucket
    IN  IF ~stream.open THEN same
        ELSE IF ~magicOk THEN same
        ELSE IF nb = 0 THEN [same EXCEPT !.numBuckets = nb, !.generation = gen]
        ELSE [ret |-> Len(data) >= end /\ AtEof(stream, end),
              numBuckets |-> nb,
              generation |-> gen,
              table |-> [b \in 0 .. nb - 1 |->
                            [i \in 1 .. ENTRIES_PER_BUCKET |-> entry(b, i)]]]

\* cnt and testCnt of hashUsage
UsageSample(tbl, n, gen) ==
    [cnt |-> Cardinality({<<b, i>> \in (0 .. (n \div 2 ^ UsageShift) - 1)
                                        \X (1 .. ENTRIES_PER_BUCKET) :
                             depth8(tbl[b][i]) # 0 /\ generation8(tbl[b][i]) = gen}),
     testCnt |-> n \div 2 ^ UsageShift]

\* the keys stored in the tables that are dumped: with two buckets, one key of each
DumpKeys == {<<47806, 51966, 48879, 57005>>, <<1, 0, 0, 0>>}

\* what a dump() call leaves: the stream, and for later comparison the table it was
\* made of and what probe and hashUsage gave on it
Dumped(tbl, n, gen) ==
    [stream |-> dump(tbl, n, gen),
     numBuckets |-> n, generation |-> gen, table |-> tbl,
     probes |-> [hashKey \in DumpKeys |->
                    LET r == probe(tbl, gen, hashKey, 2)
                    IN  [hit |-> r.hit, out |-> IF r.hit THEN r.out ELSE <<>>]],
     usage |-> UsageSample(tbl, n, gen)]

\* content of memory that was allocated and not written
Fills == {ZeroEntry, [key32 |-> Word(1, 0), data0 |-> Word(0, 0), data1 |-> Word(0, 1)]}

\* the streams load is given: the dumped one, and that one closed, cut short after any
\* number of items, followed by one more word, or with another magic or numBuckets
StreamsOf(stream) ==
    LET d == stream.data
    IN  {stream, [stream EXCEPT !.open = FALSE]}
        \cup {[stream EXCEPT !.data = SubSeq(d, 1, k)] : k \in 0 .. Len(d) - 1}
        \cup {[stream EXCEPT !.data = d \o <<Word(0, 0)>>]}
        \cup {[stream EXCEPT !.data[1] = OtherMagicString]}
        \cup {[stream EXCEPT !.data[2] = SizeLimbs(n)] : n \in 0 .. MaxDumpBuckets + 1}

\* HashTable::resize to newNumBuckets buckets; the allocation succeeds
Resize(newNumBuckets) ==
    /\ Max(newNumBuckets, 1) # numBuckets
    /\ numBuckets' = Max(newNumBuckets, 1)
    /\ table' = [b \in 0 .. Max(newNumBuckets, 1) - 1 |-> ZeroBucket]
    /\ generation' = 0
    /\ lastTT' = [op |-> "resize", fresh |-> TRUE]
    /\ UNCHANGED <<raceVars, clearing, dumped>>
    /\ UNCHANGED <<accVars, regVars, ctorVars, loaderVars, thrVars>>

\* HashTable::dump
Dump ==
    /\ dumped = NoStream
    /\ dumped' = Dumped(table, numBuckets, generation)
    /\ lastTT' = [op |-> "dump", fresh |-> lastTT.fresh]
    /\ UNCHANGED <<table, generation, raceVars, numBuckets, clearing>>
    /\ UNCHANGED <<accVars, regVars, ctorVars, loaderVars, thrVars>>

\* HashTable::load
Load(stream, magicMatches, fill) ==
    /\ dumped # NoStream
    /\ \E r \in {load(stream, table, numBuckets, generation, magicMatches, fill)} :
           /\ table' = r.table
           /\ numBuckets' = r.numBuckets
           /\ generation' = r.generation
           /\ lastTT' = [op |-> "load", fresh |-> FALSE, ret |-> r.ret, stream |-> stream,
                         oldNumBuckets |-> numBuckets]
    /\ UNCHANGED <<raceVars, clearing, dumped>>
    /\ UNCHANGED <<accVars, regVars, ctorVars, loaderVars, thrVars>>

InitDump ==
    /\ NoEvaluator /\ EmptyRegistry
    /\ files = <<>> /\ evaluators = EmptyBag /\ lastConstruct = NoConstruct /\ built = NoAccumulators
    /\ parseInput = NoParse /\ lastParse = NoParse
    /\ NoThreads
    /\ numBuckets \in 1 .. MaxDumpBuckets
    /\ clearing = NoClear
    /\ dumped = NoStream
    /\ table = clearTable
    /\ generation = 0
    /\ lastTT = NoTTCall
    /\ NoSearchers

\* the table is filled, dumped once, changed, and then given streams to load
NextDump ==
    \/ \E hashKey \in DumpKeys : lastTT.op # "load" /\ TTStore(hashKey, FirstStore)
    \/ lastTT.op # "load" /\ incGeneration
    \/ \E n \in 0 .. MaxDumpBuckets : lastTT.op # "load" /\ Resize(n)
    \/ Dump
    \/ /\ dumped # NoStream
       /\ \E stream \in StreamsOf(dumped.stream) :
          \E magicMatches \in IF stream.data = <<>> THEN BOOLEAN ELSE {TRUE} :
          \E fill \in IF Len(stream.data) < Len(dumped.stream.data) + 1 THEN Fills
                       ELSE {ZeroEntry} :
              Load(stream, magicMatches, fill)

SpecDump == InitDump /\ [][NextDump]_vars

\* what cnt * 1000 / (ENTRIES_PER_BUCKET * testCnt) gives when the divisor is 0: the
\* division traps, or gives 0 where the machine's division does not trap
DivisionByZero == {[trap |-> TRUE, value |-> 0], [trap |-> FALSE, value |-> 0]}

\* HashTable::hashUsage
hashUsage(tbl, n, gen, byZero) ==
    LET u == UsageSample(tbl, n, gen)
    IN  IF ENTRIES_PER_BUCKET * u.testCnt = 0 THEN byZero
        ELSE [trap |-> FALSE,
              value |-> (u.cnt * 1000) \div (ENTRIES_PER_BUCKET * u.testCnt)]

HashUsage ==
    /\ \E byZero \in DivisionByZero :
           lastTT' = [op |-> "hashUsage", fresh |-> lastTT.fresh,
                     ret |-> hashUsage(table, numBuckets, generation, byZero)]
    /\ UNCHANGED <<table, generation, raceVars, sizeVars>>
    /\ UNCHANGED <<accVars, regVars, ctorVars, loaderVars, thrVars>>

\* the table sizes hashUsage is called on: resize(hashSizeKB) gives at least one bucket
UsageSizes == {1, 2 ^ UsageShift - 1, 2 ^ UsageShift, 2 ^ (UsageShift + 1)}

\* keys of the first and the second bucket of the largest table, and of a bucket that is
\* not sampled
UsageKeys == {<<1, 0, 0, 0>>, <<2, 0, 0, 32>>, <<47806, 51966, 48879, 57005>>}

InitUsage ==
    /\ NoEvaluator /\ EmptyRegistry
    /\ files = <<>> /\ evaluators = EmptyBag /\ lastConstruct = NoConstruct /\ built = NoAccumulators
    /\ parseInput = NoParse /\ lastParse = NoParse
    /\ NoThreads
    /\ numBuckets \in UsageSizes
    /\ clearing = NoClear
    /\ dumped = NoStream
    /\ table = clearTable
    /\ generation = 0
    /\ lastTT = NoTTCall
    /\ NoSearchers

NextUsage ==
    \/ \E hashKey \in UsageKeys : TTStore(hashKey, FirstStore)
    \/ incGeneration
    \/ HashUsage

SpecUsage == InitUsage /\ [][NextUsage]_vars

-----------------------------------------------------------------------------
(* Properties of the accumulator, stated for SpecAcc *)

\* the state the accumulator under test is compared with
Acc == accumulator[BLACK]
W == weight[BLACK]

\* the stones on the board, as a set
Stones == {board[k] : k \in 1 .. Len(board)}

\* the shape code of direction dir at cell (x, y), computed from a set of stones: the code
\* of the empty board plus, for every stone on the line within five cells, its colour digit
ShapeOf(stones, x, y, dir) ==
    initIndexTable[InnerIdx(x, y)][dir]
    + SumFn([d \in 0 .. 10 |->
                LET sx == x + (d - 5) * DX[dir + 1]
                    sy == y + (d - 5) * DY[dir + 1]
                    here == {s \in stones : s.x = sx /\ s.y = sy}
                IN  IF here = {} THEN 0
                    ELSE (1 + (CHOOSE s \in here : TRUE).color) * Power3[d]],
            0, 10)

\* mapSum of a cell recomputed from its four shape codes
MapSumOf(w, shapes, ch) ==
    Wrap16(mapping(w, shapes[0], ch) + mapping(w, shapes[1], ch)
           + mapping(w, shapes[2], ch) + mapping(w, shapes[3], ch))

\* mapAfterDWConv of an outer cell recomputed from mapSum
ConvOf(w, mapSum, xo, yo, ch) ==
    Wrap16(feature_dwconv_bias(w, ch)
           + SumFn([k \in 0 .. 8 |->
                       LET dy == k \div 3
                           dx == k % 3
                       IN  IF OffBoard(xo - dx, yo - dy) THEN 0
                           ELSE I16Mulhrs(PReLU(mapSum[InnerIdx(xo - dx, yo - dy)][ch],
                                                map_prelu_weight(w, ch)),
                                          feature_dwconv_weight(w, 8 - dy * 3 - dx, ch))],
                   0, 8))

\* the value feature of the board cell (x, y) in channel ch
CellFeature(w, acc, x, y, ch) ==
    IF ch \in ConvChannels
    THEN ReLU(acc.mapAfterDWConv[OuterIdx(x + 1, y + 1)][ch])
    ELSE PReLU(acc.mapSum[InnerIdx(x, y)][ch], map_prelu_weight(w, ch))

\* the sum of the value features of the board cells that satisfy In
FeatureSum(w, acc, ch, In(_, _)) ==
    SumFn([y \in Coord |->
             SumFn([x \in Coord |-> IF In(x, y) THEN CellFeature(w, acc, x, y, ch) ELSE 0],
                   0, BoardSize - 1)],
          0, BoardSize - 1)

\* C1: when every stone placed by update<MOVE> has been taken back by update<UNDO> in
\* reverse order, each UNDO given the snapshot pushed before its MOVE, then indexTable,
\* mapSum, mapAfterDWConv and valueSum are those of the clear() state.
C1_RoundTrip ==
    (ordered /\ board = <<>>) => Acc = clear(W)

\* two stones were placed and both taken back, the later one first
C1_Witness ==
    ordered /\ board = <<>> /\ undoRun >= 2

\* C2: after clear() and after any update<MOVE> / update<UNDO> calls, mapSum of every inner
\* cell is the 16-bit sum over the four directions of the mapping rows that indexTable
\* selects.
C2_MapSum ==
    \A i \in Inner : \A ch \in Channels :
        Acc.mapSum[i][ch] = MapSumOf(W, Acc.indexTable[i], ch)

\* stones have been placed and taken back, and a stone is on the board
C2_Witness ==
    everUndone /\ Len(board) >= 1 /\ trail.op = "update<MOVE>"

\* C3: after clear() and after any update<MOVE> / update<UNDO> calls, mapAfterDWConv of
\* every outer cell, halo included, is the bias plus the 3x3 stencil sum of
\* mulhrs(prelu(mapSum), dwconv_weight[8 - dy*3 - dx]) over the current mapSum.
C3_DWConv ==
    \A o \in Outer : \A ch \in ConvChannels :
        Acc.mapAfterDWConv[o][ch] =
            ConvOf(W, Acc.mapSum, o % fullBoardSize, o \div fullBoardSize, ch)

\* a stone was taken back while another one stays on the board
C3_Witness ==
    Len(board) >= 1 /\ trail.op = "update<UNDO>"

\* C4: after clear() and update<MOVE> calls only, valueSum.global is per channel the sum
\* over the whole board recomputed from the current maps: relu(mapAfterDWConv) over the
\* non-halo outer cells for the conv-fed channels, prelu(mapSum) over the inner cells for
\* the others.
C4_GlobalFromScratch ==
    ~everUndone =>
        \A ch \in Channels :
            Acc.valueSum.global[ch] = FeatureSum(W, Acc, ch, LAMBDA x, y : TRUE)

\* two stones were placed, and none was taken back
C4_Witness ==
    ~everUndone /\ Len(board) >= 2

\* C5: the global value sum is the sum of the nine group sums, and, every UNDO having been
\* given the matching snapshot, each group sum is the sum of the features of the cells
\* (x, y) with (groupIndex[y], groupIndex[x]) equal to the index of the group.
C5_Groups ==
    /\ \A ch \in Channels :
          Acc.valueSum.global[ch] =
              SumFn([k \in 0 .. NGroup * NGroup - 1 |->
                        Acc.valueSum.group[k \div NGroup][k % NGroup][ch]],
                    0, NGroup * NGroup - 1)
    /\ ordered =>
          \A i \in 0 .. NGroup - 1 : \A j \in 0 .. NGroup - 1 : \A ch \in Channels :
              Acc.valueSum.group[i][j][ch] =
                  FeatureSum(W, Acc, ch, LAMBDA x, y : groupIndex[y] = i /\ groupIndex[x] = j)

\* a stone was placed again after an undo in order
C5_Witness ==
    ordered /\ everUndone /\ Len(board) >= 2 /\ trail.op = "update<MOVE>"

\* C6: indexTable is a function of the set of coloured stones on the board: every entry is
\* the shape code computed from that set, whatever calls produced it.
C6_ShapeOfStones ==
    \A x \in Coord : \A y \in Coord : \A dir \in Dirs :
        Acc.indexTable[InnerIdx(x, y)][dir] = ShapeOf(Stones, x, y, dir)

\* two stones are on the board after an out-of-order undo
C6_Witness ==
    ~ordered /\ Len(board) >= 2

-----------------------------------------------------------------------------
(* Properties of the move cache, stated for Spec *)

\* the stones on the board as the accumulator of a side is given them
SideStones(side) ==
    IF side = WHITE
    THEN {[s EXCEPT !.color = IF s.color = BLACK THEN WHITE ELSE BLACK] : s \in Stones}
    ELSE Stones

\* C7: when beforeMove(p) is directly followed by afterUndo(p), both side caches hold what
\* they held before beforeMove(p); an evaluation that comes next executes one update per
\* entry that was cached before the pair and none for the pair, and leaves the accumulator
\* that draining the earlier cache from the earlier accumulator gives (the earlier
\* accumulator itself when that cache was empty).
C7_Cancellation ==
    /\ pre.stage = 2 => moveCache = pre.moveCache
    /\ pre.stage = 3 =>
          LET s == trail.side
              drained == clearCache(s, weight[s], pre.accumulator[s], pre.history[s],
                                    pre.moveCache[s])
          IN  /\ trail.n = Len(pre.moveCache[s])
              /\ accumulator[s] = drained.acc
              /\ valueSumBoardHistory[s] = drained.history
              /\ accumulator[Opponent(s)] = pre.accumulator[Opponent(s)]
              /\ pre.moveCache[s] = <<>> => accumulator = pre.accumulator

\* an evaluation right after a cancelled pair, on a board with an applied stone, made no
\* update
C7_Witness ==
    pre.stage = 3 /\ trail.n = 0 /\ Len(board) >= 1

\* C8: right after evaluateValue / evaluatePolicy for side s, moveCache[s] is empty and
\* the shape table of accumulator[s] is the one of exactly the stones on the board, with
\* BLACK and WHITE swapped when s is WHITE.
C8_Drained ==
    trail.op = "evaluate" =>
        /\ moveCache[trail.side] = <<>>
        /\ \A x \in Coord : \A y \in Coord : \A dir \in Dirs :
              accumulator[trail.side].indexTable[InnerIdx(x, y)][dir] =
                  ShapeOf(SideStones(trail.side), x, y, dir)

\* an evaluation for WHITE drained two cache entries and left a stone on the board
C8_Witness ==
    trail.op = "evaluate" /\ trail.side = WHITE /\ Len(board) >= 1 /\ trail.n >= 2

-----------------------------------------------------------------------------
(* Properties of the weight registry, stated for SpecReg *)

\* C9: no two pool entries have the same path; a load of a path that is in the pool
\* returns the pointer of that entry without a loader call; and weights loaded from
\* different paths and not yet unloaded are at different addresses.
C9_Reuse ==
    /\ \A i, j \in 1 .. Len(pool) :
          i # j => pool[i].filepath # pool[j].filepath /\ pool[i].weight # pool[j].weight
    /\ \A k, l \in BagToSet(handles) : (k.filepath = l.filepath) = (k.weight = l.weight)
    /\ lastLoad.op = "load" =>
          \A i \in 1 .. Len(lastLoad.before) :
              lastLoad.before[i].filepath = lastLoad.filepath =>
                  lastLoad.ret = lastLoad.before[i].weight /\ ~lastLoad.loaderCalled

\* a path was loaded again while weights of two paths are in the pool
C9_Witness ==
    /\ lastLoad.op = "load"
    /\ \E i \in 1 .. Len(lastLoad.before) : lastLoad.before[i].filepath = lastLoad.filepath
    /\ Len(pool) >= 2

\* C10: a pool entry stays, at the address its loads returned, for as long as fewer
\* unloads than loads were made of it: its refCount is the number of loads not yet
\* unloaded; an unload of an entry with refCount above 1 leaves entry and weight in place,
\* and the unload of an entry with refCount 1 removes the entry and frees the weight.
C10_Lifetime ==
    /\ \A i \in 1 .. Len(pool) :
          /\ pool[i].refCount >= 1
          /\ pool[i].refCount =
                BagCardinality([k \in {h \in BagToSet(handles) : h.weight = pool[i].weight}
                                   |-> CopiesIn(k, handles)])
    /\ \A k \in BagToSet(handles) :
          \E i \in 1 .. Len(pool) :
              pool[i].filepath = k.filepath /\ pool[i].weight = k.weight
    /\ heap = {pool[i].weight : i \in 1 .. Len(pool)}
    /\ lastLoad.op = "unload" =>
          \E i \in 1 .. Len(lastLoad.before) :
              /\ lastLoad.before[i].weight = lastLoad.ret
              /\ IF lastLoad.before[i].refCount = 1
                 THEN /\ \A j \in 1 .. Len(pool) : pool[j].filepath # lastLoad.filepath
                      /\ lastLoad.ret \notin heap
                 ELSE /\ \E j \in 1 .. Len(pool) :
                            pool[j] = [lastLoad.before[i] EXCEPT !.refCount = @ - 1]
                      /\ lastLoad.ret \in heap

\* the second of two unloads of a weight loaded twice has freed it
C10_Witness ==
    /\ lastLoad.op = "unload"
    /\ lastLoad.again
    /\ lastLoad.ret \notin heap

\* C11: a load that fails, because the file cannot be opened, the loader returns no
\* weight or the loader raises, gives no weight and leaves the pool exactly as it was,
\* without an entry for the path; so a load of the same path that follows a failed one
\* runs the loader again whenever the file opens.
C11_FailedLoad ==
    lastLoad.op = "load" =>
        /\ lastLoad.outcome \in {"notOpen", "loadFailed", "raised"} =>
               /\ lastLoad.ret = nullptr
               /\ lastLoad.raised = (lastLoad.outcome = "raised")
               /\ pool = lastLoad.before
               /\ FindPath(pool, lastLoad.filepath) = 0
        /\ lastLoad.again =>
               /\ lastLoad.outcome # "cached"
               /\ lastLoad.outcome # "notOpen" => lastLoad.loaderCalled

\* a load failed in the loader, with another path's weight in the pool, right after a
\* failed load of the same path
C11_Witness ==
    /\ lastLoad.op = "load"
    /\ lastLoad.again
    /\ lastLoad.loaderCalled
    /\ lastLoad.ret = nullptr
    /\ Len(pool) >= 1

\* C12: whenever a Mix8Evaluator is constructed with rule R on a weight file whose
\* header rule mask does not include R, the construction fails with UnsupportedRuleError
\* and the pool has no new entry and no changed reference count.  Stated for the case
\* most in favour of the sentence: one well-formed file, given for both sides.
C12_UnsupportedRule ==
    /\ lastConstruct.op = "construct"
    /\ lastConstruct.black = lastConstruct.white
    /\ \E rule_mask \in 0 .. 7 :
          /\ files[lastConstruct.black] = GoodFile(rule_mask)
          /\ ~contains(parseRuleMask(rule_mask), lastConstruct.rule)
    => /\ lastConstruct.result = "UnsupportedRuleError"
       /\ pool = lastConstruct.before

\* C13: when the header magic is not 0xacd8cc6a, or the validator returns false or
\* raises, StandardHeaderParserWarpper::load gives no weight and never calls the inner
\* loader; the inner loader is called only after the magic matched, desc_len bytes were
\* consumed and the validator, if set, accepted.
C13_HeaderRejection ==
    lastParse.op = "load" =>
        LET stream == parseInput.stream
            v == parseInput.validator
            r == lastParse.result
            header == [archHash |-> stream.header[2],
                       supportedRules |-> parseRuleMask(stream.header[3]),
                       supportedBoardSizes |-> parseBoardSizeMask(stream.header[4])]
            magicOk == Len(stream.header) >= 1 /\ stream.header[1] = Magic
            accepted == v.kind = "unset"
                           \/ (Len(stream.header) = HeaderWords
                                  /\ headerValidator(v, header) = "true")
        IN  /\ ~magicOk \/ ~accepted => ~r.loaded /\ ~r.innerCalled
            /\ r.innerCalled =>
                   /\ magicOk
                   /\ Len(stream.header) = HeaderWords
                   /\ r.consumed = stream.header[5]
                   /\ accepted

\* C14: under any interleaving of loadWeightFromFile and unloadWeight calls of several
\* threads the pool is the pool that the calls give when made one after the other in
\* some order (here: the order in which they return), with the same pointers returned;
\* in particular loads of one path that overlap and succeed give one pool entry that
\* counts them all, and one pointer.
C14_Serialised ==
    /\ seq.agree
    /\ poolMutex = NoThread => pool = seq.pool /\ heap = seq.heap
    /\ (\A t \in Threads : thr[t].pc = "idle") =>
          /\ \A i, j \in 1 .. Len(pool) : i # j => pool[i].filepath # pool[j].filepath
          /\ \A k \in BagToSet(handles) :
                \E i \in 1 .. Len(pool) :
                    /\ pool[i].filepath = k.filepath
                    /\ pool[i].weight = k.weight
                    /\ pool[i].refCount =
                          BagCardinality([l \in {h \in BagToSet(handles) :
                                                    h.filepath = k.filepath}
                                              |-> CopiesIn(l, handles)])

\* every thread has made a load of the same path that overlapped with another call and
\* gave a weight, and nothing else is held
C14_Witness ==
    /\ \A t \in Threads :
          /\ thr[t].pc = "idle"
          /\ thr[t].op = "load"
          /\ thr[t].overlapped
          /\ thr[t].ret # nullptr
          /\ thr[t].filepath = thr[1].filepath
    /\ BagCardinality(handles) = NumThreads
    /\ Len(pool) = 1
    /\ pool[1].refCount = NumThreads

-----------------------------------------------------------------------------
(* Properties of the transposition table, stated for SpecTT *)

\* the fields a probe gives out when it returns the record of the store call a, with the
\* given move
Stored(a, move) ==
    [ttValue |-> a.value, ttEval |-> a.eval, ttIsPv |-> a.isPv, ttBound |-> a.bound,
     ttMove |-> move, ttDepth |-> a.depth]

\* C15 as the specification words it: a probe that follows a store of the same key and
\* ply that was not skipped hits and gives out exactly the value, eval, isPv, bound, move
\* and depth given to the store.
C15_RoundTrip ==
    lastTT.op = "probe" /\ lastTT.prev.op = "store" /\ ~lastTT.prev.skipped =>
        /\ lastTT.hit
        /\ lastTT.out = Stored(lastTT.prev.args, lastTT.prev.args.move)

\* C15, amended: a probe that follows a store of the same key and ply that was not
\* skipped hits and gives out the value, eval, isPv, bound and depth given to the store,
\* and its move, unless the store was given Pos::NONE for a key the bucket held: then it
\* gives out the move the bucket held for that key.
C15_RoundTripKept ==
    lastTT.op = "probe" /\ lastTT.prev.op = "store" /\ ~lastTT.prev.skipped =>
        /\ lastTT.hit
        /\ lastTT.out = Stored(lastTT.prev.args,
                               IF lastTT.prev.args.move = PosNONE /\ lastTT.prev.old.present
                               THEN lastTT.prev.old.move
                               ELSE lastTT.prev.args.move)

\* a probe right after the store of a mate value with a move, in the second generation,
\* that replaced the record of another key
C15_Witness ==
    /\ lastTT.op = "probe"
    /\ lastTT.prev.op = "store"
    /\ ~lastTT.prev.skipped
    /\ lastTT.hit
    /\ lastTT.prev.args.value = VALUE_MATE - 3
    /\ ~lastTT.prev.old.present
    /\ lastTT.prev.evictedMove # PosNONE
    /\ generation = 1

\* C16: on a table that clear() has just run on, with nothing stored since, probe
\* returns false for every hash key.
C16_ClearedMisses ==
    lastTT.op = "probe" /\ lastTT.fresh => ~lastTT.hit

\* C17: a store is skipped exactly when its bound is not EXACT, its key is in the bucket
\* and its depth plus 2 is below the depth held for the key; a skipped store leaves the
\* whole table unchanged, and a store that is not skipped leaves a record of its key
\* with its depth.
C17_ReplacementSkip ==
    lastTT.op = "store" =>
        /\ lastTT.skipped =
              (/\ lastTT.args.bound # BOUND_EXACT
               /\ lastTT.old.present
               /\ lastTT.args.depth + 2 < lastTT.old.depth)
        /\ lastTT.skipped => lastTT.unchanged
        /\ ~lastTT.skipped =>
              /\ Lookup(table, lastTT.hashKey).present
              /\ Lookup(table, lastTT.hashKey).depth = lastTT.args.depth

\* a store was skipped in a generation later than the one of the record it found
C17_Witness ==
    /\ lastTT.op = "store"
    /\ lastTT.skipped
    /\ generation = 1
    /\ \E i \in 1 .. ENTRIES_PER_BUCKET :
          /\ key(table[firstEntry(lastTT.hashKey)][i]) = Key32(lastTT.hashKey)
          /\ generation8(table[firstEntry(lastTT.hashKey)][i]) = 0

\* C18: a store given Pos::NONE that is not skipped writes a record with the move the
\* bucket held for its key; when the bucket does not hold the key the record's move is
\* Pos::NONE, whatever the move of the entry it replaces.
C18_MoveRetention ==
    lastTT.op = "store" /\ ~lastTT.skipped /\ lastTT.args.move = PosNONE =>
        Lookup(table, lastTT.hashKey).move =
            IF lastTT.old.present THEN lastTT.old.move ELSE PosNONE

\* a store given Pos::NONE was written over a record of its key that had a move
C18_Witness ==
    /\ lastTT.op = "store"
    /\ ~lastTT.skipped
    /\ lastTT.args.move = PosNONE
    /\ lastTT.old.present
    /\ lastTT.old.move # PosNONE

\* a store given Pos::NONE replaced the record of another key that had a move
C18_WitnessEvicted ==
    /\ lastTT.op = "store"
    /\ ~lastTT.skipped
    /\ lastTT.args.move = PosNONE
    /\ ~lastTT.old.present
    /\ lastTT.evictedMove # PosNONE

-----------------------------------------------------------------------------
(* Properties of the hash table shared by the search threads, stated for SpecTTRace *)

\* the last probe gave out the fields of one store call made with the probed key
WholeRecordHit ==
    /\ lastTT.op = "probe"
    /\ lastTT.hit
    /\ \E c \in made :
          /\ c.hashKey = lastTT.hashKey
          /\ lastTT.out = Decode(c.entry, lastTT.ply)

\* C19: a probe hit gives out the fields of one single store call made with the
\* probed key: an entry image made of words of two store calls is never hit.
C19_TornWriteDetected ==
    lastTT.op = "probe" /\ lastTT.hit => WholeRecordHit

\* C20: after a probe that hit the record of a store call, when no call is in progress,
\* an entry whose three words are all from one store call has as its key() the key
\* that call was made with, whatever the probe wrote back on the entry.
C20_BenignBump ==
    AllIdle /\ WholeRecordHit =>
        \A b \in 0 .. numBuckets - 1, i \in 1 .. ENTRIES_PER_BUCKET :
            \A c \in made :
                (\A w \in Words : writer[b][i][w] = c.id) =>
                    key(table[b][i]) = Key32(c.hashKey)

-----------------------------------------------------------------------------
(* Further properties of the transposition table, stated for SpecTT *)

\* C21: a store whose key no entry of the bucket carries writes its record into the slot
\* whose depth8 - (generation - generation8) is least, the lowest such slot when several
\* are least, and leaves every other slot of the bucket and every other bucket as it was.
C21_VictimSelection ==
    lastTT.op = "store" /\ ~lastTT.old.present =>
        /\ ~lastTT.skipped
        /\ \A i \in 1 .. ENTRIES_PER_BUCKET : lastTT.ranks[lastTT.slot] <= lastTT.ranks[i]
        /\ \A i \in 1 .. lastTT.slot - 1 : lastTT.ranks[lastTT.slot] < lastTT.ranks[i]
        /\ lastTT.othersSame
        /\ key(table[firstEntry(lastTT.hashKey)][lastTT.slot]) = Key32(lastTT.hashKey)
        /\ depth8(table[firstEntry(lastTT.hashKey)][lastTT.slot]) + DEPTH_LOWER_BOUND
               = lastTT.args.depth

\* a store of a key the bucket did not carry took the second slot, in the second
\* generation, the first slot holding the more valuable record
C21_Witness ==
    /\ lastTT.op = "store"
    /\ ~lastTT.old.present
    /\ lastTT.slot = 2
    /\ lastTT.ranks[2] < lastTT.ranks[1]
    /\ generation = 1

\* a store of a key the bucket did not carry took the first of two slots of equal rank
\* that held records
C21_WitnessTie ==
    /\ lastTT.op = "store"
    /\ ~lastTT.old.present
    /\ lastTT.slot = 1
    /\ lastTT.ranks[1] = lastTT.ranks[2]
    /\ lastTT.ranks[1] > 0

\* C22, stated for SpecClear: when clear() has returned, whatever the number of buckets
\* and of worker threads, the slabs of the workers are pairwise disjoint and together
\* are all the buckets, every bucket is all-zero and generation is 0.
C22_ClearZeroes ==
    lastTT.op = "clear" =>
        /\ \A i, j \in DOMAIN lastTT.slabs : i # j => lastTT.slabs[i] \cap lastTT.slabs[j] = {}
        /\ UNION {lastTT.slabs[i] : i \in DOMAIN lastTT.slabs} = 0 .. numBuckets - 1
        /\ \A b \in 0 .. numBuckets - 1 : table[b] = ZeroBucket
        /\ generation = 0

\* clear() returned on a table of three buckets with two workers, the second of which
\* zeroed the two last buckets
C22_Witness ==
    /\ lastTT.op = "clear"
    /\ numBuckets = 3
    /\ lastTT.numThreads = 2
    /\ lastTT.slabs[1] = {1, 2}

\* clear() returned with more workers than buckets
C22_WitnessMany ==
    /\ lastTT.op = "clear"
    /\ lastTT.numThreads > numBuckets
    /\ numBuckets > 1

-----------------------------------------------------------------------------
(* Properties of dump and load, stated for SpecDump *)

WellFormed(stream) ==
    /\ stream.open
    /\ Len(stream.data) >= DumpHeaderItems
    /\ stream.data[1] = HashDumpMagicString
    /\ FromLimbs(stream.data[2]) # 0
    /\ Len(stream.data) = DumpHeaderItems + FromLimbs(stream.data[2]) * WordsPerBucket

C25_UsagePermille ==
    lastTT.op = "hashUsage" =>
        /\ ~lastTT.ret.trap
        /\ lastTT.ret.value \in 0 .. 1000
        /\ LET u == UsageSample(table, numBuckets, generation)
           IN  u.testCnt > 0 =>
                   lastTT.ret.value = (u.cnt * 1000) \div (ENTRIES_PER_BUCKET * u.testCnt)

-----------------------------------------------------------------------------
(* Range of the shape codes, stated for SpecAcc *)

\* the shape codes held by the accumulator, all cells and directions
ShapeCodes == {Acc.indexTable[innerIdx][dir] : innerIdx \in Inner, dir \in Dirs}

\* C26 as stated: every shape index, for every cell and each of the four directions, lies
\* in [0, 3^12) after clear() and after any sequence of update<MOVE> on empty cells and
\* update<UNDO> of stones that are present.
C26_ShapeRange ==
    \A c \in ShapeCodes : 0 <= c /\ c < Power3[12]

\* C26, amended: every shape index lies in [0, 4 * 3^11): the digit above the eleven cell
\* digits is 0 for a line clear of the walls, 1 or 2 for a line cut by one wall and 3
\* for a diagonal cut by two.
C26_ShapeRangeWalls ==
    \A c \in ShapeCodes : 0 <= c /\ c < 4 * Power3[11]

\* after a MOVE and an out-of-order UNDO one stone is left, and a diagonal that two walls
\* cut carries its digit: the code is at least 3^12 and differs from the empty board's
C26_Witness ==
    /\ ~ordered /\ Len(board) = 1
    /\ \E innerIdx \in Inner : \E dir \in Dirs :
           /\ Acc.indexTable[innerIdx][dir] >= Power3[12]
           /\ Acc.indexTable[innerIdx][dir] # initIndexTable[innerIdx][dir]
-----------------------------------------------------------------------------
(* Properties of clearCache and of the two sides' caches, stated for Spec *)

\* the stone of a cache entry as the board knows it: the colour put down or taken back
EntryColor(entry) == IF entry.oldColor = EMPTY THEN entry.newColor ELSE entry.oldColor

\* C27: clearCache(side) makes one update call per pending entry of moveCache[side], in
\* insertion order: update<MOVE> for an entry recorded by beforeMove (oldColor EMPTY),
\* update<UNDO> for an entry recorded by afterUndo, at the entry's x and y, with the
\* colour of the stone swapped exactly when side is WHITE; and it leaves moveCache[side]
\* empty.
C27_ClearCacheOrder ==
    trail.op = "evaluate" =>
        /\ Len(trail.log) = Len(trail.cache)
        /\ \A i \in 1 .. Len(trail.cache) :
              /\ trail.log[i].UT = (IF trail.cache[i].oldColor = EMPTY THEN MOVE ELSE UNDO)
              /\ trail.log[i].x = trail.cache[i].x
              /\ trail.log[i].y = trail.cache[i].y
              /\ trail.log[i].pieceColor =
                    (IF trail.side = WHITE THEN Opponent(EntryColor(trail.cache[i]))
                     ELSE EntryColor(trail.cache[i]))
        /\ trail.n = Len(trail.cache)
        /\ moveCache[trail.side] = <<>>

\* clearCache(WHITE) drained an afterUndo entry followed by a beforeMove entry
C27_Witness ==
    /\ trail.op = "evaluate" /\ trail.side = WHITE
    /\ Len(trail.cache) = 2
    /\ trail.cache[1].newColor = EMPTY
    /\ trail.cache[2].oldColor = EMPTY

\* clearCache(BLACK) drained two beforeMove entries of different colours
C27_WitnessBlack ==
    /\ trail.op = "evaluate" /\ trail.side = BLACK
    /\ Len(trail.cache) = 2
    /\ trail.cache[1].oldColor = EMPTY /\ trail.cache[2].oldColor = EMPTY
    /\ trail.cache[1].newColor # trail.cache[2].newColor

\* the cache of one side took in the entry: it was appended, or it cancelled the contrary
\* entry that was last
Recorded(before, after, entry) ==
    \/ after = Append(before, entry)
    \/ /\ before # <<>>
       /\ isContraryMove(entry, Last(before))
       /\ after = ButLast(before)

SideBoard(side) ==
    [k \in 1 .. Len(board) |->
        [color |-> IF side = WHITE THEN Opponent(board[k].color) ELSE board[k].color,
         x |-> board[k].x, y |-> board[k].y]]

\* the stones applied to the accumulator right after the i-th logged call, found by
\* walking the calls after it backwards from the stones applied at the end
RECURSIVE AppliedAfter(_, _, _, _)
AppliedAfter(log, i, j, stones) ==
    IF j <= i THEN stones
    ELSE AppliedAfter(log, i, j - 1,
                      IF log[j].UT = MOVE THEN ButLast(stones)
                      ELSE Append(stones, [color |-> log[j].pieceColor,
                                           x |-> log[j].x, y |-> log[j].y]))

\* the accumulator that clear() and update<MOVE> of the stones, in order, give
RECURSIVE Replay(_, _, _)
Replay(w, stones, k) ==
    IF k = 0 THEN clear(w)
    ELSE update(MOVE, w, Replay(w, stones, k - 1), stones[k].color, stones[k].x, stones[k].y,
                ZeroValueSum)

\* C29: whenever clearCache drains an UNDO entry for side s, valueSumBoardHistory[s] is
\* non-empty and its top is the snapshot pushed when the MOVE of that stone was drained
\* for s: it sits at the depth of that stone among the stones applied to accumulator[s],
\* and it is the valueSum the accumulator holds with the stones applied before it.
C29_UndoSnapshot ==
    trail.op = "evaluate" =>
        \A i \in 1 .. Len(trail.log) :
            trail.log[i].UT = UNDO =>
                LET rest == AppliedAfter(trail.log, i, Len(trail.log), SideBoard(trail.side))
                IN  /\ trail.log[i].depth >= 1
                    /\ trail.log[i].depth = Len(rest) + 1
                    /\ trail.log[i].snapshot =
                          Replay(weight[trail.side], rest, Len(rest)).valueSum

\* an evaluation for BLACK drained the UNDO of a stone put down on top of another one,
\* whose MOVE an earlier evaluation had drained, while WHITE, evaluated in between, still
\* holds a snapshot
C29_Witness ==
    /\ trail.op = "evaluate" /\ trail.side = BLACK
    /\ \E i \in 1 .. Len(trail.log) : trail.log[i].UT = UNDO /\ trail.log[i].depth = 2
    /\ valueSumBoardHistory[WHITE] # <<>>

-----------------------------------------------------------------------------
(* The rectangle of update<MOVE>, stated for SpecAcc *)

\* the non-halo outer cells
BoardOuter == {OuterIdx(xo, yo) : xo \in 1 .. BoardSize, yo \in 1 .. BoardSize}

\* the outer cells of the rectangle of the cell (x, y)
RectCells(x, y) ==
    {OuterIdx(xi, yi) : xi \in DirtyRect(x, y).x0 .. DirtyRect(x, y).x1,
                        yi \in DirtyRect(x, y).y0 .. DirtyRect(x, y).y1}

\* C30: for every played cell (x, y), every non-halo outer cell whose mapAfterDWConv is
\* modified by update<MOVE> lies in the rectangle [x0, x1] x [y0, y1] whose relu sum is
\* taken out of the value sums before and put back after, and every cell of the rectangle
\* is a non-halo outer cell.
C30_DirtyRectangle ==
    [][trail'.op = "update<MOVE>" =>
          LET stone == Last(board')
          IN  /\ \A o \in BoardOuter :
                    accumulator'[BLACK].mapAfterDWConv[o] # accumulator[BLACK].mapAfterDWConv[o]
                        => o \in RectCells(stone.x, stone.y)
              /\ RectCells(stone.x, stone.y) \subseteq BoardOuter
              /\ RectCells(stone.x, stone.y) # {}]_vars

\* the one stone on the board was put down in the last column: its rectangle leaves out
\* the first column, and mapAfterDWConv differs from the empty board's inside it
C30_Witness ==
    /\ trail.op = "update<MOVE>" /\ Len(board) = 1 /\ board[1].x = BoardSize - 1
    /\ OuterIdx(1, 1) \notin RectCells(board[1].x, board[1].y)
    /\ \E o \in RectCells(board[1].x, board[1].y) :
           Acc.mapAfterDWConv[o] # clear(W).mapAfterDWConv[o]
-----------------------------------------------------------------------------
(* Properties of the accumulators of any board size, stated for SpecBoards *)

\* the cells of one axis that groupIndex puts in segment g
Segment(acc, g) == {i \in 0 .. acc.boardSize - 1 : acc.groupIndex[i] = g}

\* C31: for every board size, groupIndex is non-decreasing over [0, boardSize) with values
\* in {0, 1, 2}, each of the three segments is non-empty (and so contiguous), the segment
\* lengths differ by at most one, every one of the nine groups holds a cell and every
\* groupSizeScale is finite.
C31_GroupIndex ==
    \A k \in 1 .. Len(built) :
        LET acc == built[k]
        IN  /\ \A i \in 0 .. acc.boardSize - 1 : acc.groupIndex[i] \in 0 .. NGroup - 1
            /\ \A i \in 1 .. acc.boardSize - 1 : acc.groupIndex[i - 1] <= acc.groupIndex[i]
            /\ \A g \in 0 .. NGroup - 1 :
                  /\ Segment(acc, g) # {}
                  /\ \A a, b \in Segment(acc, g) : \A i \in a .. b : i \in Segment(acc, g)
            /\ \A g, h \in 0 .. NGroup - 1 :
                  Cardinality(Segment(acc, g)) - Cardinality(Segment(acc, h)) \in -1 .. 1
            /\ \A i, j \in 0 .. NGroup - 1 :
                  /\ acc.groupSize[i][j] >= 1
                  /\ acc.groupSize[i][j] =
                        Cardinality(Segment(acc, i)) * Cardinality(Segment(acc, j))
                  /\ acc.groupSizeScale[i][j].finite

\* accumulators of two board sizes that leave different remainders modulo 3 are alive, one
\* with segments of unequal length
C31_Witness ==
    /\ Len(built) = 2
    /\ built[1].boardSize % 3 = 1 /\ built[2].boardSize % 3 = 2
    /\ Cardinality(Segment(built[2], 0)) # Cardinality(Segment(built[2], 1))
\* the number of cells of the window of (x, y) in direction dir that are off the board on
\* the end of offsets sign * 1 .. sign * 5
OffEnd(boardSize, x, y, dir, sign) ==
    Cardinality({k \in 1 .. 5 :
                    LET xi == x + sign * k * DX[dir + 1]
                        yi == y + sign * k * DY[dir + 1]
                    IN  xi < 0 \/ xi >= boardSize \/ yi < 0 \/ yi >= boardSize})

\* the code with the wall digit and the wall marks for tPos cells off the board on the
\* positive end and tNeg on the negative end
WallCode(tPos, tNeg) ==
    ((IF tPos > 0 THEN 1 ELSE 0) + (IF tNeg > 0 THEN 2 ELSE 0)) * Power3[11]
    + SumFn([j \in 0 .. 10 |-> IF j >= 12 - tPos \/ j <= tNeg - 2 THEN Power3[j] ELSE 0], 0, 10)

\* the cells and directions of an accumulator whose code after initIndexTable is not the
\* wall code of their window
WrongWalls(acc) ==
    {c \in (0 .. acc.boardSize - 1) \X (0 .. acc.boardSize - 1) \X Dirs :
        acc.indexTable[c[1] + c[2] * acc.boardSize][c[3]] #
            WallCode(OffEnd(acc.boardSize, c[1], c[2], c[3], 1),
                     OffEnd(acc.boardSize, c[1], c[2], c[3], -1))}

\* C33: after initIndexTable, for every board size from 6, every cell and every direction,
\* the coefficient of Power3[11] is 0 when the window lies on the board, 1 when only its
\* positive end leaves it, 2 when only its negative end does and 3 when both do, and with
\* t cells off the board on an end the t - 1 outermost digits of that end are 1 and all
\* other digits 0.
C33_WallEncoding ==
    \A k \in 1 .. Len(built) :
        built[k].indexTable # <<>> => WrongWalls(built[k]) = {}

\* C33 for the boards on which no window leaves the board on both of the ends of a row
\* or column, that is from size 10 on
C33_WallEncodingWide ==
    \A k \in 1 .. Len(built) :
        built[k].indexTable # <<>> /\ built[k].boardSize >= 10 => WrongWalls(built[k]) = {}
-----------------------------------------------------------------------------
(* The validator of the Mix8Evaluator constructor, stated for SpecLoader *)

\* bit of a rule in the rule mask of the header
RuleBit(rule) == IF rule = FREESTYLE THEN 0 ELSE IF rule = STANDARD THEN 1 ELSE 2

\* bit b of the mask m is set
MaskBit(m, b) == (m \div (2 ^ b)) % 2 = 1

\* C32: the validator of the Mix8Evaluator constructor, called on a header, raises
\* IncompatibleWeight when archHash is not the compile-time constant, whatever the masks;
\* otherwise UnsupportedRule when ruleMask lacks the evaluator's rule; otherwise
\* UnsupportedBoardSize when boardSizeMask lacks the board size; and only a header that
\* passes the three is accepted and handed to the inner loader.
C32_ValidatorPrecedence ==
    lastParse.op = "load" /\ parseInput.validator.kind = "mix8"
                          /\ lastParse.result.validatorCalled =>
        LET headerData == parseInput.garbage
            v == parseInput.validator
            r == lastParse.result
        IN  /\ r.raised =
                  (IF headerData[2] # ArchHash THEN "IncompatibleWeightFileError"
                   ELSE IF ~MaskBit(headerData[3], RuleBit(v.rule)) THEN "UnsupportedRuleError"
                   ELSE IF ~MaskBit(headerData[4], v.boardSize - 1)
                        THEN "UnsupportedBoardSizeError"
                   ELSE "none")
            /\ r.innerCalled <=> r.raised = "none"
            /\ r.loaded => r.raised = "none"

\* the validator was called on a header of another architecture that names neither the
\* rule nor the board size, and raised IncompatibleWeight
C32_Witness ==
    /\ lastParse.op = "load" /\ parseInput.validator.kind = "mix8"
    /\ Len(parseInput.stream.header) = HeaderWords
    /\ parseInput.garbage[2] = OtherArchHash
    /\ parseInput.garbage[3] = 4 /\ parseInput.garbage[4] = 0
    /\ lastParse.result.raised = "IncompatibleWeightFileError"

\* the validator was called on a header of the right architecture that names the rule
\* but not the board size, and raised UnsupportedBoardSize
C32_WitnessBoardSize ==
    /\ lastParse.op = "load" /\ parseInput.validator.kind = "mix8"
    /\ Len(parseInput.stream.header) = HeaderWords
    /\ parseInput.garbage[2] = ArchHash
    /\ parseInput.garbage[3] = 5 /\ parseInput.garbage[4] = 0
    /\ lastParse.result.raised = "UnsupportedBoardSizeError"
-----------------------------------------------------------------------------
(* Frame of probe, stated for SpecTT *)

\* C34: on a single thread a probe that hits sets generation8 of the entry it hit, the
\* first of the bucket with the key, to the current generation and leaves value16,
\* eval16, pvBoundBest16, depth8 and key() of that entry and every other entry as they
\* were; a probe that misses changes nothing in the table.
C34_ProbeFrame ==
    [][lastTT'.op = "probe" =>
          LET b == firstEntry(lastTT'.hashKey)
              key32 == Key32(lastTT'.hashKey)
              hits == {i \in 1 .. ENTRIES_PER_BUCKET : key(table[b][i]) = key32}
          IN  /\ lastTT'.hit <=> hits # {}
              /\ ~lastTT'.hit => table' = table
              /\ lastTT'.hit =>
                    \E i \in hits :
                        /\ \A j \in hits : i <= j
                        /\ generation8(table'[b][i]) = generation
                        /\ value16(table'[b][i]) = value16(table[b][i])
                        /\ eval16(table'[b][i]) = eval16(table[b][i])
                        /\ pvBoundBest16(table'[b][i]) = pvBoundBest16(table[b][i])
                        /\ depth8(table'[b][i]) = depth8(table[b][i])
                        /\ key(table'[b][i]) = key(table[b][i])
                        /\ table'[b][i].data0 = table[b][i].data0
                        /\ \A c \in 0 .. numBuckets - 1, j \in 1 .. ENTRIES_PER_BUCKET :
                              c # b \/ j # i => table'[c][j] = table[c][j]]_vars

\* a probe hit a written entry of the generation before and brought it to the current
\* one
C34_Witness ==
    /\ lastTT.op = "probe" /\ lastTT.hit
    /\ lastTT.was # generation
    /\ depth8(table[firstEntry(lastTT.hashKey)][lastTT.slot]) # 0
    /\ generation8(table[firstEntry(lastTT.hashKey)][lastTT.slot]) = generation

\* a probe missed on a table that holds a written entry
C34_WitnessMiss ==
    /\ lastTT.op = "probe" /\ ~lastTT.hit
    /\ \E b \in 0 .. numBuckets - 1, i \in 1 .. ENTRIES_PER_BUCKET : depth8(table[b][i]) # 0

\* C35: after every addCache (a beforeMove or an afterUndo hook) the move cache of each
\* side holds fewer than boardSize * boardSize entries, so the assert that ends addCache
\* holds, whatever was evaluated before
C35_CacheBelowCells ==
    trail.op \in {"beforeMove", "afterUndo"}
        => \A c \in Sides : Len(moveCache[c]) < BoardSize * BoardSize


\* the entries of a cache that were recorded by beforeMove (isUndo FALSE) or by afterUndo
RECURSIVE CountEntries(_, _)
CountEntries(mc, isUndo) ==
    IF mc = <<>> THEN 0
    ELSE CountEntries(ButLast(mc), isUndo)
         + (IF (Last(mc).newColor = EMPTY) = isUndo THEN 1 ELSE 0)

\* the number of stones applied to accumulator[side]: the stones of the board, less the
\* ones whose beforeMove is still pending in moveCache[side], plus the ones that were
\* taken back with the afterUndo still pending
AppliedStones(side) ==
    Len(board) - CountEntries(moveCache[side], FALSE) + CountEntries(moveCache[side], TRUE)

\* C36: valueSumBoardHistory[s] holds one snapshot per stone applied to accumulator[s]
\* after any sequence of initEmptyBoard, beforeMove, afterUndo and evaluations; it is
\* empty right after initEmptyBoard
C36_HistoryDepth ==
    \A s \in Sides : Len(valueSumBoardHistory[s]) = AppliedStones(s)


\* C37: a construction that fails, on the black or on the white weight path, leaves the
\* pool of the registry as it was before the construction: the same entries with the
\* same reference counts.
C37_FailedConstruct ==
    lastConstruct.op = "construct" /\ lastConstruct.result # "ok"
        => pool = lastConstruct.before

\* the same for the constructions that fail on the black weight path
C37_FailedBlack ==
    /\ lastConstruct.op = "construct"
    /\ lastConstruct.result # "ok"
    /\ files[lastConstruct.black] \notin {GoodFile(rule_mask) : rule_mask \in 0 .. 7}
    => pool = lastConstruct.before


\* C38: a load that returns false leaves numBuckets, generation and the buckets of the
\* table as they were before the call.
C38_FailedLoadKeepsTable ==
    [][lastTT'.op = "load" /\ ~lastTT'.ret
          => /\ numBuckets' = numBuckets
             /\ generation' = generation
             /\ table' = table]_vars

\* the same for the loads that fail before anything but the magic was read: the stream
\* does not open or the magic differs
C38_FailedBeforeHeader ==
    [][/\ lastTT'.op = "load"
       /\ ~lastTT'.ret
       /\ \/ ~lastTT'.stream.open
          \/ /\ lastTT'.stream.data # <<>>
             /\ lastTT'.stream.data[1] # HashDumpMagicString
       => /\ numBuckets' = numBuckets
          /\ generation' = generation
          /\ table' = table]_vars


\* C39: a store of a key no entry of the bucket carries never replaces an entry whose
\* generation8 is the current generation while the bucket holds an entry of the same
\* depth8 that was last written or hit in an earlier generation, also after the 8-bit
\* generation has wrapped from 255 to 0.
C39_AgeingAcrossWrap ==
    [][lastTT'.op = "store" /\ ~lastTT'.old.present
          => LET entry == table[firstEntry(lastTT'.hashKey)]
             IN  \A i, j \in 1 .. ENTRIES_PER_BUCKET :
                     /\ depth8(entry[i]) = depth8(entry[j])
                     /\ generation8(entry[i]) = generation
                     /\ generation8(entry[j]) # generation
                     => lastTT'.slot # i]_vars


\* C40: after any sequence of store and probe calls on a cleared table, made one at a
\* time, no bucket holds two written entries (depth8 # 0) with the same key(): a store
\* whose key is in the bucket writes into the slot that has it.
C40_NoDuplicateKey ==
    /\ \A b \in 0 .. numBuckets - 1 :
       \A i, j \in 1 .. ENTRIES_PER_BUCKET :
           /\ i # j
           /\ depth8(table[b][i]) # 0
           /\ depth8(table[b][j]) # 0
           => key(table[b][i]) # key(table[b][j])
    /\ lastTT.op = "store" /\ lastTT.old.present => lastTT.slot = lastTT.matched

\* a store of a key that was in the second slot of a full bucket wrote into that slot
C40_Witness ==
    /\ lastTT.op = "store"
    /\ lastTT.old.present
    /\ ~lastTT.skipped
    /\ ~lastTT.unchanged
    /\ lastTT.slot = 2
    /\ \A i \in 1 .. ENTRIES_PER_BUCKET : depth8(table[firstEntry(lastTT.hashKey)][i]) # 0

====
